---- MODULE Spec2Model ----
(***************************************************************************)
(* A model of tornado-cli (src/tornado.js): the note codec, the Merkle     *)
(* proof reconstruction from the ledger's Deposit events, and the direct   *)
(* and relayed withdrawal flows.                                           *)
(*                                                                         *)
(* Data representation                                                     *)
(*   Buffer      [type |-> "Buffer", bytes |-> sequence of 0..255]         *)
(*   bigInt      [type |-> "bigInt", digits |-> the digits (0..15) of      *)
(*               toString(16): most significant first, no leading zero,    *)
(*               zero is <<0>>]                                            *)
(*   JS string   sequence of one-character strings                         *)
(***************************************************************************)
EXTENDS Integers, Sequences, FiniteSets, TLC

\* ------------------------------------------------------------------ bounds
\* Largest number of Deposit events the ledger holds in a run.
MaxLeaves == 2
\* Longest list of events one getPastEvents answer delivers.
MaxFetch == 2
\* Largest height, and longest leaf sequence, of the trees built for their
\* paths.
MaxTreeHeight == 3
MaxTreeLeaves == 4

\* ------------------------------------------------------- program constants
\* rbigint(31), leInt2Buff(31), buf.slice(0, 31), buf.slice(31, 62)
ScalarBytes == 31
\* toHex(deposit.preimage, 62), buf.slice(31, 62)
PreimageBytes == 62
\* toHex(number, length = 32)
DefaultHexBytes == 32
\* /^0x[0-9a-fA-F]{124}$/
NoteHexChars == 124
\* /^0x[0-9a-fA-F]{40}$/
AddressHexChars == 40

\* ------------------------------------------------------------ JS strings
HexChars == <<"0", "1", "2", "3", "4", "5", "6", "7",
              "8", "9", "a", "b", "c", "d", "e", "f">>

UpperHexChars == <<"0", "1", "2", "3", "4", "5", "6", "7",
                   "8", "9", "A", "B", "C", "D", "E", "F">>

\* The characters the class [0-9a-fA-F] accepts.
HexCharSet == {HexChars[i] : i \in 1..16} \cup {UpperHexChars[i] : i \in 1..16}

\* The value of a hex character, -1 for any other character.
HexVal(c) ==
  IF \E i \in 1..16 : HexChars[i] = c
  THEN (CHOOSE i \in 1..16 : HexChars[i] = c) - 1
  ELSE IF \E i \in 1..16 : UpperHexChars[i] = c
  THEN (CHOOSE i \in 1..16 : UpperHexChars[i] = c) - 1
  ELSE -1

Reverse(s) == [i \in 1..Len(s) |-> s[Len(s) + 1 - i]]

\* String.prototype.padStart(targetLength, ch): pads on the left, never cuts.
padStart(str, targetLength, ch) ==
  IF Len(str) >= targetLength THEN str
  ELSE [i \in 1..(targetLength - Len(str)) |-> ch] \o str

\* String.prototype.slice(2)
slice2(str) == IF Len(str) <= 2 THEN <<>> ELSE SubSeq(str, 3, Len(str))

\* Buffer.prototype.toString('hex'): two lower-case characters per byte.
BufferToHexString(bytes) ==
  [i \in 1..(2 * Len(bytes)) |->
     IF i % 2 = 1 THEN HexChars[(bytes[(i + 1) \div 2] \div 16) + 1]
     ELSE HexChars[(bytes[i \div 2] % 16) + 1]]

\* bigInt.prototype.toString(16)
BigIntToString16(digits) == [i \in 1..Len(digits) |-> HexChars[digits[i] + 1]]

\* The number of leading characters of str that Buffer.from(str, 'hex')
\* decodes: whole pairs of hex characters, up to the first pair that is not.
RECURSIVE HexPrefixPairs(_, _)
HexPrefixPairs(str, k) ==
  IF 2 * k + 2 <= Len(str) /\ HexVal(str[2 * k + 1]) >= 0 /\ HexVal(str[2 * k + 2]) >= 0
  THEN HexPrefixPairs(str, k + 1)
  ELSE k

\* Buffer.from(str, 'hex')
BufferFromHex(str) ==
  [type |-> "Buffer",
   bytes |-> [i \in 1..HexPrefixPairs(str, 0) |->
                16 * HexVal(str[2 * i - 1]) + HexVal(str[2 * i])]]

\* Buffer.prototype.slice(start, end): clamped to the buffer.
BufferSlice(buf, start, end) ==
  [type |-> "Buffer",
   bytes |-> IF start >= Len(buf.bytes) THEN <<>>
             ELSE SubSeq(buf.bytes, start + 1,
                         IF end < Len(buf.bytes) THEN end ELSE Len(buf.bytes))]

\* Buffer.concat([a, b])
BufferConcat(a, b) == [type |-> "Buffer", bytes |-> a.bytes \o b.bytes]

\* ---------------------------------------------------------------- bigInt
RECURSIVE StripLeadingZeros(_)
StripLeadingZeros(digits) ==
  IF Len(digits) > 1 /\ digits[1] = 0 THEN StripLeadingZeros(Tail(digits))
  ELSE IF Len(digits) = 0 THEN <<0>> ELSE digits

\* The two hex digits of every byte, first byte first.
BytesToDigits(bytes) ==
  [i \in 1..(2 * Len(bytes)) |->
     IF i % 2 = 1 THEN bytes[(i + 1) \div 2] \div 16 ELSE bytes[i \div 2] % 16]

\* snarkjs bigInt.leBuff2int(buf): the bytes read least significant first.
leBuff2int(buf) ==
  [type |-> "bigInt", digits |-> StripLeadingZeros(BytesToDigits(Reverse(buf.bytes)))]

\* snarkjs bigInt.prototype.leInt2Buff(len): len bytes, least significant
\* first, zero filled (the callers pass values below 256^len).
leInt2Buff(n, len) ==
  LET padded == padStart(n.digits, 2 * len, 0)
      be == [i \in 1..len |-> 16 * padded[2 * i - 1] + padded[2 * i]]
  IN [type |-> "Buffer", bytes |-> Reverse(be)]

RECURSIVE NatToDigits(_)
NatToDigits(n) == IF n < 16 THEN <<n>> ELSE Append(NatToDigits(n \div 16), n % 16)

\* bigInt(n) of a small JS number
BigIntOfNat(n) == [type |-> "bigInt", digits |-> NatToDigits(n)]

\* bigInt('0x...') of a hex string: its digits without leading zeros.
BigIntOfHexString(str) ==
  [type |-> "bigInt",
   digits |-> StripLeadingZeros([i \in 1..Len(slice2(str)) |-> HexVal(slice2(str)[i])])]

\* digits * k for a small k, by long multiplication from the last digit.
RECURSIVE MulDigits(_, _, _)
MulDigits(digits, k, carry) ==
  IF Len(digits) = 0
  THEN IF carry = 0 THEN <<>> ELSE NatToDigits(carry)
  ELSE LET v == digits[Len(digits)] * k + carry
       IN Append(MulDigits(SubSeq(digits, 1, Len(digits) - 1), k, v \div 16), v % 16)

\* bigInt.prototype.mul for a factor 1000^e
RECURSIVE MulPow1000(_, _)
MulPow1000(n, e) ==
  IF e = 0 THEN n
  ELSE MulPow1000([type |-> "bigInt",
                   digits |-> StripLeadingZeros(MulDigits(n.digits, 1000, 0))], e - 1)

\* ------------------------------------------------------------------ toHex
\* /** BigNumber to hex string of specified length */
toHex(number, length) ==
  LET str == IF number.type = "Buffer" THEN BufferToHexString(number.bytes)
             ELSE BigIntToString16(number.digits)
  IN <<"0", "x">> \o padStart(str, length * 2, "0")

\* ------------------------------------------------------------ pedersenHash
\* The hash primitive is an external collaborator: a deterministic function
\* from byte strings to field elements.  It is modelled by a position-weighted
\* checksum, which separates every pair of inputs the model enumerates.
RECURSIVE WeightedSum(_, _)
WeightedSum(bytes, i) ==
  IF i > Len(bytes) THEN 0
  ELSE (7 * i + 1) * (bytes[i] + 1) + WeightedSum(bytes, i + 1)

pedersenHash(data) ==
  LET sum == WeightedSum(data.bytes, 1) + 1
      head == NatToDigits(sum)
      \* odd checksums give a full-width (64 digit) field element
      tail == [i \in 1..(63 - Len(head)) |-> (sum + i) % 16]
  IN [type |-> "bigInt",
      digits |-> IF sum % 2 = 1 THEN <<2>> \o head \o tail ELSE head]

\* ---------------------------------------------------------- createDeposit
\* Mutant: the scalars written on 32 bytes instead of 31.
createDeposit32(nullifier, secret) ==
  LET preimage == BufferConcat(leInt2Buff(nullifier, ScalarBytes + 1),
                               leInt2Buff(secret, ScalarBytes + 1))
  IN [nullifier |-> nullifier,
      secret |-> secret,
      preimage |-> preimage,
      commitment |-> pedersenHash(preimage),
      nullifierHash |-> pedersenHash(leInt2Buff(nullifier, ScalarBytes + 1))]

createDeposit(nullifier, secret) ==
  LET preimage == BufferConcat(leInt2Buff(nullifier, ScalarBytes),
                               leInt2Buff(secret, ScalarBytes))
  IN [nullifier |-> nullifier,
      secret |-> secret,
      preimage |-> preimage,
      commitment |-> pedersenHash(preimage),
      nullifierHash |-> pedersenHash(leInt2Buff(nullifier, ScalarBytes))]

\* const note = toHex(deposit.preimage, 62)
encodeNote(deposit) == toHex(deposit.preimage, PreimageBytes)

\* Mutant: the secret sliced one byte too far.
decodeNoteOffByOne(note) ==
  LET buf == BufferFromHex(slice2(note))
  IN createDeposit(leBuff2int(BufferSlice(buf, 0, ScalarBytes)),
                   leBuff2int(BufferSlice(buf, ScalarBytes + 1, PreimageBytes)))

\* Decode hex string and restore the deposit object
decodeNote(note) ==
  LET buf == BufferFromHex(slice2(note))
  IN createDeposit(leBuff2int(BufferSlice(buf, 0, ScalarBytes)),
                   leBuff2int(BufferSlice(buf, ScalarBytes, PreimageBytes)))

\* /^0x[0-9a-fA-F]{n}$/.test(str)
HexRegexTest(str, n) ==
  /\ Len(str) = n + 2
  /\ str[1] = "0"
  /\ str[2] = "x"
  /\ \A i \in 3..Len(str) : str[i] \in HexCharSet

NoteRegexTest(str) == HexRegexTest(str, NoteHexChars)

AddressRegexTest(str) == HexRegexTest(str, AddressHexChars)

\* ------------------------------------------------------- Deposit events
\* The ledger's Deposit log is the sequence of the commitments deposited; the
\* event of position i carries leafIndex i - 1 (the ledger assigns them in
\* insertion order).
EventAt(ledgerLog, i) == [leafIndex |-> i - 1, commitment |-> ledgerLog[i]]

EventsOf(ledgerLog) == {EventAt(ledgerLog, i) : i \in 1..Len(ledgerLog)}

\* What one getPastEvents call can deliver: events of the log in any order,
\* possibly repeated, possibly with some missing.
Deliveries(ledgerLog) == UNION {[1..n -> EventsOf(ledgerLog)] : n \in 0..MaxFetch}

\* Every event of the log, in the ledger's order.
AllEvents(ledgerLog) == [i \in 1..Len(ledgerLog) |-> EventAt(ledgerLog, i)]

\* What getPastEvents answers in a run: the runs over the larger trees get
\* every event, oldest first or newest first.
EventsAnswers(scenario, ledgerLog) ==
  IF scenario = "tree"
  THEN {AllEvents(ledgerLog), Reverse(AllEvents(ledgerLog))}
  ELSE Deliveries(ledgerLog)

\* (a, b) => a.returnValues.leafIndex - b.returnValues.leafIndex
CompareLeafIndex(a, b) == a.leafIndex - b.leafIndex

\* Array.prototype.sort(compare) is stable: an element goes after every
\* element that compares lower or equal.
RECURSIVE SortedInsert(_, _)
SortedInsert(sorted, e) ==
  IF Len(sorted) = 0 THEN <<e>>
  ELSE IF CompareLeafIndex(sorted[Len(sorted)], e) <= 0 THEN Append(sorted, e)
  ELSE Append(SortedInsert(SubSeq(sorted, 1, Len(sorted) - 1), e), sorted[Len(sorted)])

RECURSIVE SortByCompare(_)
SortByCompare(events) ==
  IF Len(events) = 0 THEN <<>>
  ELSE SortedInsert(SortByCompare(SubSeq(events, 1, Len(events) - 1)), events[Len(events)])

\* Mutant: the events left in delivery order.
SortEventsNone(events) == events

\* events.sort(...): sorts the array in place and returns it.
SortEvents(events) == SortByCompare(events)

\* .map(e => e.returnValues.commitment)
LeavesOf(events) == [i \in 1..Len(events) |-> events[i].commitment]

\* events.find(e => e.returnValues.commitment === toHex(deposit.commitment)):
\* the position of the first match in the (sorted) array, 0 when there is none.
FindDepositEvent(events, deposit) ==
  LET hits == {i \in 1..Len(events) :
                 events[i].commitment = toHex(deposit.commitment, DefaultHexBytes)}
  IN IF hits = {} THEN 0 ELSE CHOOSE i \in hits : \A j \in hits : i <= j

\* Mutant: 0 for a deposit that has no event.
LeafIndexOfZero(events, deposit) ==
  IF FindDepositEvent(events, deposit) = 0 THEN 0
  ELSE events[FindDepositEvent(events, deposit)].leafIndex

\* Mutant: the position in the fetched array for the event's leafIndex.
LeafIndexOfPosition(events, deposit) == FindDepositEvent(events, deposit) - 1

\* let leafIndex = depositEvent ? depositEvent.returnValues.leafIndex : -1
LeafIndexOf(events, deposit) ==
  IF FindDepositEvent(events, deposit) = 0 THEN -1
  ELSE events[FindDepositEvent(events, deposit)].leafIndex

\* --------------------------------------------------------- the Merkle tree
MERKLE_TREE_HEIGHT == 20

\* lib/MerkleTree as the specification's section 4.2 describes it: level 0
\* is the leaves, padded with a zero value to the width 2^height; node k of a
\* higher level is the hash of nodes 2k and 2k + 1 of the level below; the
\* root is the single node of level `height`.  A level is held up to its last
\* node that has a real leaf under it; the nodes after it are the zero value
\* of that level.  The library is not among the sources.  Field elements are
\* small numbers here and the hash is a checksum of the ordered pair.
ZeroLeaf == 3

HashModulus == 33554393

\* Mixes the right node, so that the hash is not linear in it.
Mix(node) == (node % 4093) * (node % 4099)

PairHash(left, right) == (31 * left + 17 * right + Mix(right) + 7) % HashModulus

\* The node over two equal nodes.
HashTwice(node) == PairHash(node, node)

\* The zero values of the levels 0 to n, each the node over two of the one
\* before; the library keeps them for the levels of its tree.
ZeroAbove(zeros) == Append(zeros, HashTwice(zeros[Len(zeros)]))

RECURSIVE ZerosUpTo(_)
ZerosUpTo(n) == IF n = 0 THEN <<ZeroLeaf>> ELSE ZeroAbove(ZerosUpTo(n - 1))

ZeroValues == ZerosUpTo(MERKLE_TREE_HEIGHT)

ZeroAt(level) == ZeroValues[level + 1]

\* The level above nodes, from its node k on; zero is the zero value of the
\* level of nodes.
RECURSIVE HashPairs(_, _, _)
HashPairs(nodes, zero, k) ==
  IF 2 * k - 1 > Len(nodes) THEN <<>>
  ELSE <<PairHash(nodes[2 * k - 1], IF 2 * k <= Len(nodes) THEN nodes[2 * k] ELSE zero)>>
         \o HashPairs(nodes, zero, k + 1)

\* The nodes of level `to` over the nodes of level `from`; over no node
\* there is none.
RECURSIVE LevelsUp(_, _, _)
LevelsUp(nodes, from, to) ==
  IF Len(nodes) = 0 THEN <<>>
  ELSE IF from = to THEN nodes
  ELSE LevelsUp(HashPairs(nodes, ZeroAt(from), 1), from + 1, to)

NodesAt(leaves, level) == LevelsUp(leaves, 0, level)

\* node k (from 0) of a level whose nodes are nodes and whose zero is zero
NodeOf(nodes, zero, k) == IF k < Len(nodes) THEN nodes[k + 1] ELSE zero

NodeAt(leaves, level, k) == NodeOf(NodesAt(leaves, level), ZeroAt(level), k)

\* Root()
Root(height, leaves) == NodeAt(leaves, height, 0)

RECURSIVE Pow2(_)
Pow2(n) == IF n = 0 THEN 1 ELSE 2 * Pow2(n - 1)

\* Path(leafIndex): for each level from the leaf up, the sibling of the node
\* on the path, and the side of the node on the path: 0 left, 1 right.
Path(height, leaves, leafIndex) ==
  [path_elements |->
     [j \in 1..height |->
        LET k == leafIndex \div Pow2(j - 1)
        IN NodeAt(leaves, j - 1, IF k % 2 = 0 THEN k + 1 ELSE k - 1)],
   path_index |-> [j \in 1..height |-> (leafIndex \div Pow2(j - 1)) % 2]]

\* bigInt(leaf) of a commitment's hex string, as an element of the model's
\* field: its value modulo HashModulus, here of the digits up to str[hi].
\* a * b modulo HashModulus for a and b below it, six bits of b at a time
\* so that no product leaves the 32 bits of a number.
MulMod(a, b) ==
  LET c(n) == (b \div n) % 64
      shift(x, n) == (((64 * x) % HashModulus) + ((a * c(n)) % HashModulus)) % HashModulus
  IN shift(shift(shift(shift((a * c(16777216)) % HashModulus, 262144), 4096), 64), 1)

Square(a) == MulMod(a, a)

RECURSIVE Pow16Mod(_)
Pow16Mod(n) ==
  IF n = 0 THEN 1
  ELSE IF n % 2 = 1 THEN (16 * Pow16Mod(n - 1)) % HashModulus
  ELSE Square(Pow16Mod(n \div 2))

\* The value of the hex digits str[lo..hi] modulo HashModulus: digit by digit
\* for up to 16 digits, by halves for more.
RECURSIVE HexMod(_, _, _)
HexMod(str, lo, hi) ==
  IF lo > hi THEN 0
  ELSE IF hi - lo < 16
  THEN (16 * HexMod(str, lo, hi - 1) + HexVal(str[hi])) % HashModulus
  ELSE LET mid == (lo + hi) \div 2
       IN (MulMod(HexMod(str, lo, mid), Pow16Mod(hi - mid)) + HexMod(str, mid + 1, hi))
            % HashModulus

LeafElement(leaf) == HexMod(leaf, 3, Len(leaf))

\* The elements of leaves[lo..hi], in order.
RECURSIVE LeafElementsIn(_, _, _)
LeafElementsIn(leaves, lo, hi) ==
  IF lo > hi THEN <<>>
  ELSE IF lo = hi THEN <<LeafElement(leaves[lo])>>
  ELSE LeafElementsIn(leaves, lo, (lo + hi) \div 2)
         \o LeafElementsIn(leaves, ((lo + hi) \div 2) + 1, hi)

LeafElements(leaves) == LeafElementsIn(leaves, 1, Len(leaves))

\* new merkleTree(height, leaves).root()
TreeRoot(height, leaves) == BigIntOfNat(Root(height, LeafElements(leaves)))

\* tree.path(leafIndex): the spec's Path fails with IndexOutOfRange for an
\* index that is negative or not below the number of leaves.
TreePathInRange(leaves, leafIndex) == leafIndex >= 0 /\ leafIndex < Len(leaves)

\* --------------------------------------------------------- the assertions
\* assert(isValidRoot === true, 'Merkle tree is corrupted')
\* assert(isSpent === false, 'The note is already spent')
\* assert(leafIndex >= 0, 'The deposit is not found in the tree')
\* The first assertion that fails throws; "ok" when none does.
\* Mutant: the isSpent assertion left out.
ValidateNoSpent(isValidRoot, isSpent, leafIndex) ==
  IF isValidRoot # TRUE THEN "Merkle tree is corrupted"
  ELSE IF ~(leafIndex >= 0) THEN "The deposit is not found in the tree"
  ELSE "ok"

\* Mutant: leafIndex asserted before isSpent.
ValidateFoundFirst(isValidRoot, isSpent, leafIndex) ==
  IF isValidRoot # TRUE THEN "Merkle tree is corrupted"
  ELSE IF ~(leafIndex >= 0) THEN "The deposit is not found in the tree"
  ELSE IF isSpent # FALSE THEN "The note is already spent"
  ELSE "ok"

\* Mutant: isSpent asserted before isValidRoot.
ValidateSpentFirst(isValidRoot, isSpent, leafIndex) ==
  IF isSpent # FALSE THEN "The note is already spent"
  ELSE IF isValidRoot # TRUE THEN "Merkle tree is corrupted"
  ELSE IF ~(leafIndex >= 0) THEN "The deposit is not found in the tree"
  ELSE "ok"

\* Mutant: the isValidRoot assertion left out.
ValidateNoRoot(isValidRoot, isSpent, leafIndex) ==
  IF isSpent # FALSE THEN "The note is already spent"
  ELSE IF ~(leafIndex >= 0) THEN "The deposit is not found in the tree"
  ELSE "ok"

Validate(isValidRoot, isSpent, leafIndex) ==
  IF isValidRoot # TRUE THEN "Merkle tree is corrupted"
  ELSE IF isSpent # FALSE THEN "The note is already spent"
  ELSE IF ~(leafIndex >= 0) THEN "The deposit is not found in the tree"
  ELSE "ok"

\* ----------------------------------------------------------------- inputs
\* crypto.randomBytes(31) answers any 31 bytes; the model draws them from
\* patterns: byte a in the first k positions, byte b in the others.
BytePattern(a, b, k) ==
  [type |-> "Buffer", bytes |-> [i \in 1..ScalarBytes |-> IF i <= k THEN a ELSE b]]

\* /** Generate random number of specified byte length */
rbigint(randomBytes) == leBuff2int(randomBytes)

RandomBytes(scenario) ==
  IF scenario = "note"
  THEN {BytePattern(a, b, k) : a \in {0, 1, 255}, b \in {0, 171}, k \in {0, 1, 30}}
  ELSE IF scenario = "relay" THEN {BytePattern(7, 7, 0)}
  ELSE {BytePattern(7, 7, 0), BytePattern(3, 5, 9)}

DepositA == createDeposit(rbigint(BytePattern(1, 171, 1)), rbigint(BytePattern(0, 171, 30)))

\* Deposits of other people: only their commitments ever show, on the ledger.
DepositB == createDeposit(rbigint(BytePattern(255, 0, 1)), rbigint(BytePattern(18, 52, 3)))

DepositF == createDeposit(rbigint(BytePattern(7, 7, 0)), rbigint(BytePattern(3, 5, 9)))

DepositG == createDeposit(rbigint(BytePattern(7, 7, 0)), rbigint(BytePattern(7, 7, 0)))

NoteA == encodeNote(DepositA)

\* The deposits behind the ledger of the runs over the larger trees, the
\* k-th made k-th; the first is DepositA.
TreeDeposit(k) ==
  createDeposit(rbigint(BytePattern(k, 171, 1)), rbigint(BytePattern(0, 171, 30)))

\* The commitments of the first n of them, as the ledger holds them.
TreeLog(n) == [k \in 1..n |-> toHex(TreeDeposit(k).commitment, DefaultHexBytes)]

\* NoteA as a user may type it: the letters in upper case.
NoteAUpper ==
  [i \in 1..Len(NoteA) |-> IF i > 2 /\ HexVal(NoteA[i]) >= 10
                           THEN UpperHexChars[HexVal(NoteA[i]) + 1] ELSE NoteA[i]]

\* Strings that are no note: too short, without the 0x, with a character that
\* is no hex digit, too long.
MalformedNotes ==
  { SubSeq(NoteA, 1, 4),
    slice2(NoteA),
    [NoteA EXCEPT ![9] = "g"],
    NoteA \o <<"0", "0">> }

\* The notes a user may enter (command line argument, or browser prompt).
UserNotes(scenario) ==
  IF scenario = "note" THEN {NoteA, NoteAUpper} \cup MalformedNotes
  ELSE IF scenario = "tree" THEN {encodeNote(TreeDeposit(k)) : k \in {1, 3, 8, 20}}
  ELSE {NoteA}

AddressOf(bytes) == <<"0", "x">> \o BufferToHexString(bytes)

\* 0xee6249BA80596A4890D1BD84dbf5E4322eA4E7f0-like: 20 bytes of hex
RecipientAddress == AddressOf([i \in 1..20 |-> IF i = 1 THEN 0 ELSE 16 * (i % 16) + 2])

SenderAccount == AddressOf([i \in 1..20 |-> (11 * i) % 256])

RelayerAddress == AddressOf([i \in 1..20 |-> IF i < 3 THEN 0 ELSE (37 * i) % 256])

UserRecipients(scenario) ==
  IF scenario = "note" THEN {RecipientAddress, SubSeq(RecipientAddress, 1, 10)}
  ELSE {RecipientAddress}

\* The commands that make a deposit: the runs of the relay flow test it with
\* 'testRelay', the others with 'test'.
Commands(scenario) ==
  IF scenario = "relay" THEN {"deposit", "testRelay"} ELSE {"deposit", "test"}

\* A JS value that is a string or a number, by its type and its text.
JsString(text) == [t |-> "string", s |-> text]

JsNumber(text) == [t |-> "number", s |-> text]

\* a === b
JsStrictEquals(a, b) == a.t = b.t /\ a.s = b.s

\* A relay's address as a relay prints it with a checksum: some letters in
\* upper case.
RelayerAddressMixed ==
  [i \in 1..Len(RelayerAddress) |->
     IF i > 2 /\ i % 2 = 1 /\ HexVal(RelayerAddress[i]) >= 10
     THEN UpperHexChars[HexVal(RelayerAddress[i]) + 1] ELSE RelayerAddress[i]]

\* What a relay may send that is no address: 21 bytes.
RelayerAddressWide == AddressOf([i \in 1..21 |-> IF i = 1 THEN 1 ELSE (37 * i) % 256])

\* gasPrices.fast, in gwei
GasPrices(scenario) == IF scenario = "relay" THEN {0, 5, 250} ELSE {5}

\* netId of the status answer: a string by the relay's protocol, a number
\* from a relay that prints its configuration.
NetIds(scenario) ==
  IF scenario = "main" THEN {JsNumber("1"), JsString("2")}
  ELSE IF scenario \in {"race", "tree"} THEN {JsNumber("1")}
  ELSE {JsString("1"), JsNumber("1"), JsString("*"), JsString("2")}

RelayerAddresses(scenario) ==
  IF scenario = "relay" THEN {RelayerAddress, RelayerAddressMixed, RelayerAddressWide}
  ELSE {RelayerAddress}

\* The answers of GET {relayUrl}/status.
RelayStatuses(scenario) ==
  { [relayerAddress |-> a, netId |-> n, fast |-> g] :
      a \in RelayerAddresses(scenario),
      n \in NetIds(scenario),
      g \in GasPrices(scenario) }

NoStatus == [relayerAddress |-> <<>>, netId |-> JsString(""), fast |-> 0]

\* ------------------------------------------------------------------ state
Procs == {1, 2}

VARIABLES
  env,         \* the run's setting: scenario, the invocations that run, browser or node
  log,         \* ledger: the commitments deposited, in leafIndex order
  nullifiers,  \* ledger: the nullifier hashes registered as spent
  outbox,      \* what has been handed to the outside: transactions and relay posts
  page,        \* browser: the init() the page started when it loaded, and the
               \* module-level variables it assigns
  w            \* per invocation: position and local variables

vars == <<env, log, nullifiers, outbox, page, w>>

\* A module-level variable that init() has not assigned; the JS value
\* undefined.
Unbound == <<>>

Undefined == <<"undefined">>

\* tornado = new web3.eth.Contract(contractJson.abi,
\*   "0x5f0c5a6F699772b0E1d78ac00Af40174bFef8623")
ContractAddress ==
  <<"0", "x", "5", "f", "0", "c", "5", "a", "6", "F", "6",
    "9", "9", "7", "7", "2", "b", "0", "E", "1", "d", "7",
    "8", "a", "c", "0", "0", "A", "f", "4", "0", "1", "7",
    "4", "b", "F", "e", "f", "8", "6", "2", "3">>

\* The page's init(): where it waits, which of the three files it loads, and
\* the module-level tornado and senderAccount.  No page under node.
NoPage == [pc |-> "none", file |-> 0, tornado |-> Unbound, senderAccount |-> Undefined]

\* init() called when the page loads (line 340): web3 is made and the fetch
\* of contracts/ETHTornado.json is awaited.
PageStart == [NoPage EXCEPT !.pc = "awaitFetch", !.file = 1]

ZeroInt == BigIntOfNat(0)

NoDeposit ==
  [nullifier |-> ZeroInt, secret |-> ZeroInt,
   preimage |-> [type |-> "Buffer", bytes |-> <<>>],
   commitment |-> ZeroInt, nullifierHash |-> ZeroInt]

Idle ==
  [pc |-> "idle", cmd |-> "none", entry |-> "none", relay |-> FALSE,
   note |-> <<>>, recipient |-> <<>>, deposit |-> NoDeposit,
   relayer |-> ZeroInt, fee |-> ZeroInt, refund |-> ZeroInt,
   events |-> <<>>, leaves |-> <<>>, root |-> ZeroInt, leafIndex |-> -1,
   \* generateProof: the root destructured from what generateMerkleProof
   \* returned, which becomes input.root
   inputRoot |-> ZeroInt,
   isValidRoot |-> FALSE, isSpent |-> FALSE, args |-> <<>>,
   error |-> "", exit |-> -1, noteOut |-> <<>>,
   \* withdrawRelay: the relay's status answer; waitForTxReceipt: the
   \* retryAttempt of the running checkForTx, and the error thrown inside a
   \* checkForTx that nothing catches
   status |-> NoStatus, retryAttempt |-> 0, unhandled |-> "",
   \* the path tree.path(leafIndex) returned
   path_elements |-> <<>>, path_index |-> <<>>,
   \* the pool-aware command line: the parsed options, and what init binds
   options |-> <<>>,
   \* node: the module-level tornado and senderAccount init() assigns
   tornado |-> Unbound, senderAccount |-> Undefined,
   \* the from of the send() calls; the printBalance calls of runConsole:
   \* before or after the command, and how many are still to be made
   sendFrom |-> Undefined, balancePhase |-> "none", balancesLeft |-> 0,
   \* console.log('Done') has run
   doneLogged |-> FALSE,
   \* history: the deposit deposit() made, the events as getPastEvents
   \* delivered them, and how many times each collaborator was called
   made |-> NoDeposit, delivered |-> <<>>,
   \* history: the ledger executed the deposit transaction of this invocation
   depositMined |-> FALSE,
   \* history: the arguments of the isKnownRoot and isSpent calls
   rootAsked |-> <<>>, spentAsked |-> <<>>,
   reads |-> 0, fetches |-> 0, rootCalls |-> 0, spentCalls |-> 0,
   pathCalls |-> 0, proofCalls |-> 0, submits |-> 0,
   receiptCalls |-> 0, timers |-> 0]

\* ----------------------------------------------------------------- ledger
\* The ledger contract is an external collaborator.  It knows the root of
\* every prefix of its log, registers the nullifier hash of every withdrawal
\* it executes, and rejects a withdrawal whose root it does not know or whose
\* nullifier hash is registered, and a deposit whose commitment it holds.
\* The root the ledger had k deposits ago.
RootBefore(ledgerLog, k) ==
  toHex(TreeRoot(MERKLE_TREE_HEIGHT, SubSeq(ledgerLog, 1, Len(ledgerLog) - k)),
        DefaultHexBytes)

LedgerIsKnownRoot(rootHex) == \E k \in 0..Len(log) : RootBefore(log, k) = rootHex

LedgerIsSpent(nullifierHashHex) == nullifierHashHex \in nullifiers

LedgerAcceptsWithdraw(args) == LedgerIsKnownRoot(args[1]) /\ ~LedgerIsSpent(args[2])

\* web3.eth.net.getId(): a number
LedgerNetId == JsNumber("1")

\* function waitForTxReceipt(txHash, attempts = 60, delay = 1000)
DefaultAttempts == 60

\* ---------------------------------------------------------------- actions
\* Invocation p runs in this setting and stands at position pc.
At(p, pc) == p \in env.procs /\ w[p].pc = pc

\* Each action is what one invocation runs between two awaits: the
\* continuation of the call whose answer arrives, up to the next call issued.

DefaultFeeOne == BigIntOfNat(1)

\* generateProof(contract, note, recipient, relayer = 0, fee = 0, refund = 0)
DefaultRelayer == BigIntOfNat(0)

DefaultFee == BigIntOfNat(0)

DefaultRefund == BigIntOfNat(0)

\* generateProof up to its first await: decode the note, restore the deposit,
\* enter generateMerkleProof and ask the ledger for the Deposit events;
\* contract.getPastEvents throws when tornado is not assigned yet.
GenerateProofBegin(r, contract, relayer, fee) ==
  IF contract = Unbound
  THEN [r EXCEPT !.deposit = decodeNote(r.note),
                 !.relayer = relayer, !.fee = fee, !.refund = DefaultRefund,
                 !.pc = "failed", !.exit = 1,
                 !.error = "TypeError: Cannot read properties of undefined (reading 'getPastEvents')"]
  ELSE [r EXCEPT !.deposit = decodeNote(r.note),
                 !.relayer = relayer, !.fee = fee, !.refund = DefaultRefund,
                 !.fetches = @ + 1, !.reads = @ + 1,
                 !.pc = "awaitEvents"]

\* The module-level tornado and senderAccount invocation p sees: the page's
\* in the browser, the process's own under node.
ModuleTornado(p) == IF env.inBrowser THEN page.tornado ELSE w[p].tornado

ModuleSender(p) == IF env.inBrowser THEN page.senderAccount ELSE w[p].senderAccount

\* What web3.eth.getAccounts() answers: one account, none, or a rejection.
AccountsAnswers(scenario) ==
  IF scenario = "note" THEN {"one", "none", "rejects"} ELSE {"one", "rejects"}

\* The command of runConsole has returned: 'deposit' and 'withdraw' print
\* two balances before the entry point exits (lines 278-279, 302-303); 'test'
\* and 'testRelay', and the browser's calls, are over.
CommandReturns(r) ==
  IF r.entry = "cli" /\ r.cmd \in {"deposit", "withdraw"}
  THEN [r EXCEPT !.pc = "awaitBalance", !.reads = @ + 1,
                 !.balancePhase = "after", !.balancesLeft = 1]
  ELSE [r EXCEPT !.pc = "done", !.exit = 0]

\* Mutant: the nullifier hash before the root.
BuildArgsNullifierFirst(r) ==
  << toHex(r.deposit.nullifierHash, DefaultHexBytes),
     toHex(r.inputRoot, DefaultHexBytes),
     toHex(BigIntOfHexString(r.recipient), 20),
     toHex(r.relayer, 20),
     toHex(r.fee, DefaultHexBytes),
     toHex(r.refund, DefaultHexBytes) >>

BuildArgsRelayerFirst(r) ==
  << toHex(r.inputRoot, DefaultHexBytes),
     toHex(r.deposit.nullifierHash, DefaultHexBytes),
     toHex(r.relayer, 20),
     toHex(BigIntOfHexString(r.recipient), 20),
     toHex(r.fee, DefaultHexBytes),
     toHex(r.refund, DefaultHexBytes) >>

\* const args = [toHex(input.root), toHex(input.nullifierHash),
\*   toHex(input.recipient, 20), toHex(input.relayer, 20),
\*   toHex(input.fee), toHex(input.refund)]
BuildArgs(r) ==
  << toHex(r.inputRoot, DefaultHexBytes),
     toHex(r.deposit.nullifierHash, DefaultHexBytes),
     toHex(BigIntOfHexString(r.recipient), 20),
     toHex(r.relayer, 20),
     toHex(r.fee, DefaultHexBytes),
     toHex(r.refund, DefaultHexBytes) >>

NetIdAcceptedAny(netId, ledgerNetId) == TRUE

\* netId === await web3.eth.net.getId() || netId === '*'
NetIdAccepted(netId, ledgerNetId) ==
  JsStrictEquals(netId, ledgerNetId) \/ JsStrictEquals(netId, JsString("*"))

RelayFeeGwei(fast) == MulPow1000(BigIntOfNat(fast), 3)

\* bigInt(toWei(gasPrices.fast.toString(), 'gwei')).mul(bigInt(1e6))
RelayFee(fast) == MulPow1000(MulPow1000(BigIntOfNat(fast), 3), 2)

\* runConsole, case 'deposit' / 'test' / 'testRelay' with args.length === 1
RunConsoleDeposit(p) ==
  /\ ~env.inBrowser
  /\ At(p, "idle")
  /\ \E c \in Commands(env.scenario) :
       w' = [w EXCEPT ![p] = [@ EXCEPT !.pc = "awaitGroth16", !.cmd = c, !.entry = "cli",
                                       !.relay = (c = "testRelay")]]
  /\ UNCHANGED <<page, env, log, nullifiers, outbox>>

\* runConsole, case 'withdraw': the formats of the note and of the recipient
\* are tested before anything else; printHelp(1) exits the process.
RunConsoleWithdraw(p) ==
  /\ ~env.inBrowser
  /\ At(p, "idle")
  /\ \E note \in UserNotes(env.scenario), recipient \in UserRecipients(env.scenario),
        relayUrl \in BOOLEAN :
       w' = [w EXCEPT ![p] =
               IF NoteRegexTest(note) /\ AddressRegexTest(recipient)
               THEN [@ EXCEPT !.pc = "awaitGroth16", !.cmd = "withdraw", !.entry = "cli",
                              !.note = note, !.recipient = recipient, !.relay = relayUrl]
               ELSE [@ EXCEPT !.pc = "exit", !.cmd = "withdraw", !.entry = "cli",
                              !.note = note, !.recipient = recipient, !.relay = relayUrl,
                              !.exit = 1]]
  /\ UNCHANGED <<page, env, log, nullifiers, outbox>>

\* runConsole, case 'balance': the format of the address is tested, then
\* init() is awaited.
RunConsoleBalance(p) ==
  /\ ~env.inBrowser
  /\ At(p, "idle")
  /\ \E address \in UserRecipients(env.scenario) :
       w' = [w EXCEPT ![p] =
               IF AddressRegexTest(address)
               THEN [@ EXCEPT !.pc = "awaitGroth16", !.cmd = "balance", !.entry = "cli",
                              !.recipient = address]
               ELSE [@ EXCEPT !.pc = "exit", !.cmd = "balance", !.entry = "cli",
                              !.recipient = address, !.exit = 1]]
  /\ UNCHANGED <<page, env, log, nullifiers, outbox>>

\* node, init(): buildGroth16() answers; web3.eth.getTransaction of the
\* deployment transaction is asked.
BuildGroth16Return(p) ==
  /\ ~env.inBrowser
  /\ At(p, "awaitGroth16")
  /\ w' = [w EXCEPT ![p] = [@ EXCEPT !.reads = @ + 1, !.pc = "awaitGetTransaction"]]
  /\ UNCHANGED <<page, env, log, nullifiers, outbox>>

\* node, init(): getTransaction answers.  With a transaction, tornado is
\* bound, deployedBlock set and getAccounts asked; with null, tornado is bound
\* and tx.blockNumber throws; a rejection throws at the await.  runConsole
\* rejects and the entry point exits with 1.
GetTransactionReturn(p) ==
  /\ ~env.inBrowser
  /\ At(p, "awaitGetTransaction")
  /\ \E tx \in {"tx", "null", "rejects"} :
       w' = [w EXCEPT ![p] =
               IF tx = "tx"
               THEN [@ EXCEPT !.tornado = ContractAddress, !.pc = "awaitGetAccounts"]
               ELSE IF tx = "null"
               THEN [@ EXCEPT !.tornado = ContractAddress, !.pc = "failed", !.exit = 1,
                              !.error = "TypeError: Cannot read properties of null (reading 'blockNumber')"]
               ELSE [@ EXCEPT !.pc = "failed", !.exit = 1,
                              !.error = "getTransaction rejected"]]
  /\ UNCHANGED <<page, env, log, nullifiers, outbox>>

\* node, init(): getAccounts answers, senderAccount is its first element
\* (undefined when there is none) and init() returns.  runConsole goes on:
\* 'deposit' and 'withdraw' print two balances before the command, 'balance'
\* prints one and is over, 'test' and 'testRelay' call deposit().
GetAccountsReturn(p) ==
  /\ ~env.inBrowser
  /\ At(p, "awaitGetAccounts")
  /\ \E accounts \in AccountsAnswers(env.scenario) :
       w' = [w EXCEPT ![p] =
               IF accounts = "rejects"
               THEN [@ EXCEPT !.pc = "failed", !.exit = 1, !.error = "getAccounts rejected"]
               ELSE LET sender == IF accounts = "one" THEN SenderAccount ELSE Undefined
                    IN IF w[p].cmd \in {"test", "testRelay"}
                       THEN [@ EXCEPT !.senderAccount = sender, !.pc = "deposit"]
                       ELSE [@ EXCEPT !.senderAccount = sender, !.pc = "awaitBalance",
                                      !.reads = @ + 1,
                                      !.balancePhase = IF w[p].cmd = "balance"
                                                       THEN "after" ELSE "before",
                                      !.balancesLeft = IF w[p].cmd = "balance"
                                                       THEN 0 ELSE 1]]
  /\ UNCHANGED <<page, env, log, nullifiers, outbox>>

\* printBalance: web3.eth.getBalance answers, or rejects.  After the last
\* balance before the command the command starts; after the last one after
\* it runConsole returns and the entry point exits with 0.
GetBalanceReturn(p) ==
  /\ At(p, "awaitBalance")
  /\ \E answers \in BOOLEAN :
       w' = [w EXCEPT ![p] =
               IF ~answers
               THEN [@ EXCEPT !.pc = "failed", !.exit = 1, !.error = "getBalance rejected"]
               ELSE IF w[p].balancesLeft > 0
               THEN [@ EXCEPT !.balancesLeft = @ - 1, !.reads = @ + 1]
               ELSE IF w[p].balancePhase = "after"
               THEN [@ EXCEPT !.pc = "done", !.exit = 0]
               ELSE [@ EXCEPT !.pc = IF w[p].cmd = "deposit" THEN "deposit"
                                     ELSE IF w[p].relay THEN "withdrawRelay"
                                     ELSE "withdraw"]]
  /\ UNCHANGED <<page, env, log, nullifiers, outbox>>

\* browser, init(): a fetch of line 221, 222 or 223 answers, or rejects.
PageFetchReturn ==
  /\ page.pc = "awaitFetch"
  /\ \E answers \in BOOLEAN :
       page' = IF answers THEN [page EXCEPT !.pc = "awaitBody"]
               ELSE [page EXCEPT !.pc = "failed", !.file = 0]
  /\ UNCHANGED <<env, log, nullifiers, outbox, w>>

\* browser, init(): json() or arrayBuffer() of the fetched file answers, or
\* rejects; after the third file buildGroth16() is awaited.
PageBodyReturn ==
  /\ page.pc = "awaitBody"
  /\ \E answers \in BOOLEAN :
       page' = IF ~answers THEN [page EXCEPT !.pc = "failed", !.file = 0]
               ELSE IF page.file < 3
               THEN [page EXCEPT !.pc = "awaitFetch", !.file = @ + 1]
               ELSE [page EXCEPT !.pc = "awaitGroth16", !.file = 0]
  /\ UNCHANGED <<env, log, nullifiers, outbox, w>>

\* browser, init(): buildGroth16() answers.
PageBuildGroth16Return ==
  /\ page.pc = "awaitGroth16"
  /\ page' = [page EXCEPT !.pc = "awaitGetTransaction"]
  /\ UNCHANGED <<env, log, nullifiers, outbox, w>>

\* browser, init(): getTransaction answers; nobody holds the promise of
\* init(), a failure leaves the page as it is.
PageGetTransactionReturn ==
  /\ page.pc = "awaitGetTransaction"
  /\ \E tx \in {"tx", "null", "rejects"} :
       page' = IF tx = "tx"
               THEN [page EXCEPT !.tornado = ContractAddress, !.pc = "awaitGetAccounts"]
               ELSE IF tx = "null"
               THEN [page EXCEPT !.tornado = ContractAddress, !.pc = "failed"]
               ELSE [page EXCEPT !.pc = "failed"]
  /\ UNCHANGED <<env, log, nullifiers, outbox, w>>

\* browser, init(): getAccounts answers; 'Loaded'.
PageGetAccountsReturn ==
  /\ page.pc = "awaitGetAccounts"
  /\ \E accounts \in AccountsAnswers(env.scenario) :
       page' = IF accounts = "rejects" THEN [page EXCEPT !.pc = "failed"]
               ELSE [page EXCEPT !.pc = "loaded",
                                 !.senderAccount = IF accounts = "one" THEN SenderAccount
                                                   ELSE Undefined]
  /\ UNCHANGED <<env, log, nullifiers, outbox, w>>

\* window.deposit = deposit
WindowDeposit(p) ==
  /\ env.inBrowser
  /\ At(p, "idle")
  /\ w' = [w EXCEPT ![p] = [@ EXCEPT !.pc = "deposit", !.cmd = "deposit",
                                     !.entry = "browser"]]
  /\ UNCHANGED <<page, env, log, nullifiers, outbox>>

\* window.withdraw: const note = prompt(...), then web3.eth.getAccounts() is
\* awaited.
WindowWithdraw(p) ==
  /\ env.inBrowser
  /\ At(p, "idle")
  /\ \E note \in UserNotes(env.scenario) :
       w' = [w EXCEPT ![p] = [@ EXCEPT !.pc = "awaitAccounts", !.cmd = "withdraw",
                                       !.entry = "browser", !.note = note]]
  /\ UNCHANGED <<page, env, log, nullifiers, outbox>>

\* window.withdraw: getAccounts answers; recipient is its first element
\* (undefined when there is none) and withdraw(note, recipient) is called.
WindowAccountsReturn(p) ==
  /\ At(p, "awaitAccounts")
  /\ \E accounts \in AccountsAnswers(env.scenario) :
       w' = [w EXCEPT ![p] =
               IF accounts = "rejects"
               THEN [@ EXCEPT !.pc = "failed", !.exit = 1, !.error = "getAccounts rejected"]
               ELSE [@ EXCEPT !.pc = "withdraw",
                              !.recipient = IF accounts = "one" THEN SenderAccount
                                            ELSE Undefined]]
  /\ UNCHANGED <<page, env, log, nullifiers, outbox>>

\* deposit(), up to the await of send(): the deposit is created from two
\* random scalars and the deposit transaction is handed to the ledger, from
\* senderAccount; tornado.methods throws when tornado is not assigned yet.
DepositBegin(p) ==
  /\ At(p, "deposit")
  /\ \E r1 \in RandomBytes(env.scenario), r2 \in RandomBytes(env.scenario) :
       LET d == createDeposit(rbigint(r1), rbigint(r2))
       IN IF ModuleTornado(p) = Unbound
          THEN /\ w' = [w EXCEPT ![p] =
                          [@ EXCEPT !.pc = "failed", !.exit = 1,
                                    !.error = "TypeError: Cannot read properties of undefined (reading 'methods')"]]
               /\ outbox' = outbox
          ELSE /\ w' = [w EXCEPT ![p] =
                          [@ EXCEPT !.pc = "awaitDepositSend", !.deposit = d, !.made = d,
                                    !.sendFrom = ModuleSender(p)]]
               /\ outbox' = outbox \cup
                    {[kind |-> "deposit", by |-> p,
                      payload |-> <<toHex(d.commitment, DefaultHexBytes)>>]}
  /\ UNCHANGED <<page, env, log, nullifiers>>

\* send() of the deposit resolves (the ledger appended the commitment): the
\* note is printed and returned; 'test' and 'testRelay' go on to withdraw it
\* to senderAccount, 'deposit' to print the balances.
DepositSendReturn(p) ==
  /\ At(p, "awaitDepositSend")
  /\ \A i \in 1..Len(log) : log[i] # toHex(w[p].deposit.commitment, DefaultHexBytes)
  /\ log' = Append(log, toHex(w[p].deposit.commitment, DefaultHexBytes))
  /\ w' = [w EXCEPT ![p] =
             LET note == toHex(w[p].deposit.preimage, PreimageBytes)
             IN IF w[p].cmd = "deposit"
                THEN CommandReturns([@ EXCEPT !.noteOut = note, !.depositMined = TRUE])
                ELSE [@ EXCEPT !.pc = IF w[p].relay THEN "withdrawRelay" ELSE "withdraw",
                               !.noteOut = note, !.note = note,
                               !.recipient = ModuleSender(p), !.depositMined = TRUE]]
  /\ UNCHANGED <<page, env, nullifiers, outbox>>

\* send() of the deposit rejects: the ledger holds the commitment already.
DepositSendReject(p) ==
  /\ At(p, "awaitDepositSend")
  /\ \E i \in 1..Len(log) : log[i] = toHex(w[p].deposit.commitment, DefaultHexBytes)
  /\ w' = [w EXCEPT ![p] = [@ EXCEPT !.pc = "failed", !.error = "send rejected",
                                     !.exit = 1]]
  /\ UNCHANGED <<page, env, log, nullifiers, outbox>>

\* send() of the deposit rejects although the ledger has not refused the
\* transaction: the provider gave up waiting for the receipt of the
\* broadcast transaction, or the connection broke.  The await at line 60
\* throws, lines 62-64 (the note) are not run, and the transaction stays
\* with the ledger.
DepositSendTimeout(p) ==
  /\ At(p, "awaitDepositSend")
  /\ \A i \in 1..Len(log) : log[i] # toHex(w[p].deposit.commitment, DefaultHexBytes)
  /\ w' = [w EXCEPT ![p] = [@ EXCEPT !.pc = "failed", !.error = "send timed out",
                                     !.exit = 1]]
  /\ UNCHANGED <<page, env, log, nullifiers, outbox>>

\* The ledger executes a deposit transaction whose send() had given up: the
\* commitment is appended to the log.
DepositMinedLate(p) ==
  /\ At(p, "failed")
  /\ w[p].error = "send timed out"
  /\ ~w[p].depositMined
  /\ [kind |-> "deposit", by |-> p,
      payload |-> <<toHex(w[p].deposit.commitment, DefaultHexBytes)>>] \in outbox
  /\ \A i \in 1..Len(log) : log[i] # toHex(w[p].deposit.commitment, DefaultHexBytes)
  /\ log' = Append(log, toHex(w[p].deposit.commitment, DefaultHexBytes))
  /\ w' = [w EXCEPT ![p] = [@ EXCEPT !.depositMined = TRUE]]
  /\ UNCHANGED <<page, env, nullifiers, outbox>>

\* withdraw(note, recipient): generateProof(tornado, note, recipient), with
\* relayer = 0, fee = 0, refund = 0.
Withdraw(p) ==
  /\ At(p, "withdraw")
  /\ w' = [w EXCEPT ![p] = GenerateProofBegin(w[p], ModuleTornado(p), DefaultRelayer,
                                              DefaultFee)]
  /\ UNCHANGED <<page, env, log, nullifiers, outbox>>

\* withdrawRelay(note, recipient, relayUrl): axios.get(relayUrl + '/status')
WithdrawRelay(p) ==
  /\ At(p, "withdrawRelay")
  /\ w' = [w EXCEPT ![p] = [@ EXCEPT !.pc = "awaitStatus"]]
  /\ UNCHANGED <<page, env, log, nullifiers, outbox>>

\* The relay's status arrives: web3.eth.net.getId() is awaited inside the
\* network assertion.
RelayStatusReturn(p) ==
  /\ At(p, "awaitStatus")
  /\ \E resp \in RelayStatuses(env.scenario) :
       w' = [w EXCEPT ![p] = [@ EXCEPT !.status = resp, !.reads = @ + 1,
                                       !.pc = "awaitNetId"]]
  /\ UNCHANGED <<page, env, log, nullifiers, outbox>>

\* getId answers, or rejects: the network assertion, the fee, then
\* generateProof(tornado, note, recipient, relayerAddress, fee).
NetIdReturn(p) ==
  /\ At(p, "awaitNetId")
  /\ \E answers \in BOOLEAN :
       w' = [w EXCEPT ![p] =
               IF ~answers
               THEN [@ EXCEPT !.pc = "failed", !.exit = 1, !.error = "getId rejected"]
               ELSE IF NetIdAccepted(w[p].status.netId, LedgerNetId)
               THEN GenerateProofBegin(w[p], ModuleTornado(p),
                                       BigIntOfHexString(w[p].status.relayerAddress),
                                       RelayFee(w[p].status.fast))
               ELSE [@ EXCEPT !.pc = "failed", !.exit = 1,
                              !.error = "This relay is for different network"]]
  /\ UNCHANGED <<page, env, log, nullifiers, outbox>>

\* The root in the answer of tree.path(leafIndex), which generateMerkleProof
\* returns as it is and generateProof destructures as { root, path_elements,
\* path_index }.  The library is an external collaborator whose answer
\* tornado.js does not compare with tree.root(): the answer carries the root
\* of the tree, no root at all (a Path of path_elements and path_index only),
\* or another value.  No root is the JS value undefined in the place of a
\* bigInt; the other value is the modulus, which no hash reaches and which is
\* the root of no tree.  The runs of two racing withdrawals and of the larger
\* trees take the first answer only.
PathRootAnswers(scenario, height, leaves) ==
  IF scenario \in {"race", "tree"}
  THEN {TreeRoot(height, leaves)}
  ELSE {TreeRoot(height, leaves),
        [type |-> "undefined", digits |-> <<>>],
        BigIntOfNat(HashModulus)}

\* getPastEvents answers: the events are sorted in place, the leaves mapped
\* from them, the tree built, the deposit's event looked up in the sorted
\* array, and tree.root() awaited.
GetPastEventsReturn(p) ==
  /\ At(p, "awaitEvents")
  /\ \/ \E delivered \in EventsAnswers(env.scenario, log) :
          LET events == SortEvents(delivered)
              leaves == LeavesOf(events)
          IN w' = [w EXCEPT ![p] =
                     [@ EXCEPT !.delivered = delivered,
                               !.events = events,
                               !.leaves = leaves,
                               !.leafIndex = LeafIndexOf(events, w[p].deposit),
                               !.pc = "awaitTreeRoot"]]
     \/ w' = [w EXCEPT ![p] = [@ EXCEPT !.pc = "failed", !.exit = 1,
                                        !.error = "getPastEvents rejected"]]
  /\ UNCHANGED <<page, env, log, nullifiers, outbox>>

\* tree.root() answers: isKnownRoot(toHex(root)) is asked.
TreeRootReturn(p) ==
  /\ At(p, "awaitTreeRoot")
  /\ LET root == TreeRoot(MERKLE_TREE_HEIGHT, w[p].leaves)
     IN w' = [w EXCEPT ![p] =
                [@ EXCEPT !.root = root,
                          !.rootCalls = @ + 1, !.reads = @ + 1,
                          !.rootAsked = toHex(root, DefaultHexBytes),
                          !.pc = "awaitKnownRoot"]]
  /\ UNCHANGED <<page, env, log, nullifiers, outbox>>

\* isKnownRoot answers, and isSpent(toHex(deposit.nullifierHash)) is asked;
\* or the call rejects, and the await of line 88 throws.
IsKnownRootReturn(p) ==
  /\ At(p, "awaitKnownRoot")
  /\ \E answers \in BOOLEAN :
       w' = [w EXCEPT ![p] =
               IF ~answers
               THEN [@ EXCEPT !.pc = "failed", !.exit = 1,
                              !.error = "isKnownRoot rejected"]
               ELSE [@ EXCEPT !.isValidRoot = LedgerIsKnownRoot(w[p].rootAsked),
                              !.spentAsked = toHex(w[p].deposit.nullifierHash,
                                                   DefaultHexBytes),
                              !.spentCalls = @ + 1, !.reads = @ + 1,
                              !.pc = "awaitSpent"]]
  /\ UNCHANGED <<page, env, log, nullifiers, outbox>>

\* isSpent answers: the three assertions, then tree.path(leafIndex) is
\* awaited; or the call rejects, and the await of line 89 throws before any
\* assertion is made.
IsSpentReturn(p) ==
  /\ At(p, "awaitSpent")
  /\ \E answers \in BOOLEAN :
       LET spent == LedgerIsSpent(w[p].spentAsked)
           verdict == Validate(w[p].isValidRoot, spent, w[p].leafIndex)
       IN w' = [w EXCEPT ![p] =
                  IF ~answers
                  THEN [@ EXCEPT !.pc = "failed", !.exit = 1,
                                 !.error = "isSpent rejected"]
                  ELSE IF verdict # "ok"
                  THEN [@ EXCEPT !.isSpent = spent, !.pc = "failed", !.error = verdict,
                                 !.exit = 1]
                  ELSE [@ EXCEPT !.isSpent = spent, !.pathCalls = @ + 1,
                                 !.pc = "awaitTreePath"]]
  /\ UNCHANGED <<page, env, log, nullifiers, outbox>>

\* Mutant: the path asked is that of the next leaf.
PathNextLeaf(p) ==
  /\ At(p, "awaitTreePath")
  /\ \E answerRoot \in PathRootAnswers(env.scenario, MERKLE_TREE_HEIGHT, w[p].leaves) :
       w' = [w EXCEPT ![p] =
               IF ~TreePathInRange(w[p].leaves, w[p].leafIndex)
               THEN [@ EXCEPT !.pc = "failed", !.error = "IndexOutOfRange", !.exit = 1]
               ELSE LET path == Path(MERKLE_TREE_HEIGHT, LeafElements(w[p].leaves),
                                     (w[p].leafIndex + 1) % Len(w[p].leaves))
                        answered == [w[p] EXCEPT
                                       !.inputRoot = answerRoot,
                                       !.path_elements = path.path_elements,
                                       !.path_index = path.path_index]
                    IN IF w[p].recipient = Undefined
                       THEN [answered EXCEPT
                               !.pc = "failed", !.exit = 1,
                               !.error = "TypeError: Cannot convert undefined to a BigInt"]
                       ELSE [answered EXCEPT !.proofCalls = @ + 1, !.pc = "proving"]]
  /\ UNCHANGED <<page, env, log, nullifiers, outbox>>

\* tree.path answers, or fails for an index out of range.  generateProof
\* takes root, path_elements and path_index from the answer and prepares the
\* circuit input, where bigInt(recipient) throws for a recipient that is
\* undefined; then the proof backend is called.
TreePathReturn(p) ==
  /\ At(p, "awaitTreePath")
  /\ \E answerRoot \in PathRootAnswers(env.scenario, MERKLE_TREE_HEIGHT, w[p].leaves) :
       w' = [w EXCEPT ![p] =
               IF ~TreePathInRange(w[p].leaves, w[p].leafIndex)
               THEN [@ EXCEPT !.pc = "failed", !.error = "IndexOutOfRange", !.exit = 1]
               ELSE LET path == Path(MERKLE_TREE_HEIGHT, LeafElements(w[p].leaves),
                                     w[p].leafIndex)
                        answered == [w[p] EXCEPT
                                       !.inputRoot = answerRoot,
                                       !.path_elements = path.path_elements,
                                       !.path_index = path.path_index]
                    IN IF w[p].recipient = Undefined
                       THEN [answered EXCEPT
                               !.pc = "failed", !.exit = 1,
                               !.error = "TypeError: Cannot convert undefined to a BigInt"]
                       ELSE [answered EXCEPT !.proofCalls = @ + 1, !.pc = "proving"]]
  /\ UNCHANGED <<page, env, log, nullifiers, outbox>>

\* The proof backend answers: args are built and generateProof returns
\* { proof, args }.  toHex(input.root) is bigInt(input.root), which throws
\* for a root that is undefined.
ProofReturn(p) ==
  /\ At(p, "proving")
  /\ w' = [w EXCEPT ![p] =
             IF w[p].inputRoot.type = "undefined"
             THEN [@ EXCEPT !.pc = "failed", !.exit = 1,
                            !.error = "TypeError: Cannot convert undefined to a BigInt"]
             ELSE [@ EXCEPT !.args = BuildArgs(w[p]), !.pc = "proofBuilt"]]
  /\ UNCHANGED <<page, env, log, nullifiers, outbox>>

SubmitStays(p) ==
  /\ At(p, "proofBuilt")
  /\ w' = [w EXCEPT ![p] =
             [@ EXCEPT !.submits = @ + 1,
                       !.sendFrom = IF w[p].relay THEN @ ELSE ModuleSender(p),
                       !.pc = IF w[p].submits = 0 THEN "proofBuilt"
                              ELSE IF w[p].relay THEN "awaitPost" ELSE "awaitSend"]]
  /\ outbox' = outbox \cup
       {[kind |-> IF w[p].relay THEN "relay" ELSE "withdraw", by |-> p,
         payload |-> w[p].args]}
  /\ UNCHANGED <<page, env, log, nullifiers>>

\* The caller of generateProof goes on: withdraw sends the ledger
\* transaction, withdrawRelay posts proof and args to the relay.
Submit(p) ==
  /\ At(p, "proofBuilt")
  /\ w' = [w EXCEPT ![p] =
             [@ EXCEPT !.submits = @ + 1,
                       !.sendFrom = IF w[p].relay THEN @ ELSE ModuleSender(p),
                       !.pc = IF w[p].relay THEN "awaitPost" ELSE "awaitSend"]]
  /\ outbox' = outbox \cup
       {[kind |-> IF w[p].relay THEN "relay" ELSE "withdraw", by |-> p,
         payload |-> w[p].args]}
  /\ UNCHANGED <<page, env, log, nullifiers>>

\* send() of the withdraw transaction resolves: the ledger executed it and
\* registered the nullifier hash; 'Done' is printed and withdraw returns.
WithdrawSendReturn(p) ==
  /\ At(p, "awaitSend")
  /\ LedgerAcceptsWithdraw(w[p].args)
  /\ nullifiers' = nullifiers \cup {w[p].args[2]}
  /\ w' = [w EXCEPT ![p] = CommandReturns([@ EXCEPT !.doneLogged = TRUE])]
  /\ UNCHANGED <<page, env, log, outbox>>

\* send() of the withdraw transaction rejects: the ledger reverted it.
WithdrawSendReject(p) ==
  /\ At(p, "awaitSend")
  /\ ~LedgerAcceptsWithdraw(w[p].args)
  /\ w' = [w EXCEPT ![p] = [@ EXCEPT !.pc = "failed", !.error = "send rejected",
                                     !.exit = 1]]
  /\ UNCHANGED <<page, env, log, nullifiers, outbox>>

\* The POST to /relay is answered with a transaction hash: waitForTxReceipt
\* starts checkForTx(txHash), which asks for the receipt.
PostReturn(p) ==
  /\ At(p, "awaitPost")
  /\ w' = [w EXCEPT ![p] = [@ EXCEPT !.retryAttempt = 0, !.receiptCalls = @ + 1,
                                     !.pc = "awaitReceipt"]]
  /\ UNCHANGED <<page, env, log, nullifiers, outbox>>

\* The POST to /relay fails (the relay is unreachable, or answers an error).
PostReject(p) ==
  /\ At(p, "awaitPost")
  /\ w' = [w EXCEPT ![p] = [@ EXCEPT !.pc = "failed", !.error = "post rejected",
                                     !.exit = 1]]
  /\ UNCHANGED <<page, env, log, nullifiers, outbox>>

\* getTransactionReceipt answers inside checkForTx(txHash, retryAttempt):
\* a receipt with a block number resolves the promise of waitForTxReceipt and
\* withdrawRelay prints 'Done'; without one, a timer is set while
\* retryAttempt <= attempts, and the promise is rejected after that.  The
\* receipt query failing throws inside the async checkForTx, whose own promise
\* nobody holds: the promise of waitForTxReceipt is neither resolved nor
\* rejected, no timer is set, nothing is logged and process.exit is not
\* called.  What becomes of the run is the runtime's doing: node ends the
\* process on the unhandled rejection with status 1, or, where unhandled
\* rejections only warn, with status 0 once nothing is left to run; a page
\* stays as it is.
ReceiptReturn(p) ==
  /\ At(p, "awaitReceipt")
  /\ \E result \in {"null", "receipt", "throws"}, status \in {0, 1} :
       /\ w' = [w EXCEPT ![p] =
                  IF result = "receipt"
                  THEN CommandReturns([@ EXCEPT !.doneLogged = TRUE])
                  ELSE IF result = "throws"
                  THEN IF w[p].entry = "cli"
                       THEN [@ EXCEPT !.pc = "ended", !.exit = status,
                                      !.unhandled = "getTransactionReceipt failed"]
                       ELSE [@ EXCEPT !.pc = "pending",
                                      !.unhandled = "getTransactionReceipt failed"]
                  ELSE IF w[p].retryAttempt <= DefaultAttempts
                  THEN [@ EXCEPT !.pc = "sleeping", !.timers = @ + 1]
                  ELSE [@ EXCEPT !.pc = "failed", !.error = "tx was not mined",
                                 !.exit = 1]]
       /\ nullifiers' = IF result = "receipt" /\ LedgerAcceptsWithdraw(w[p].args)
                        THEN nullifiers \cup {w[p].args[2]}
                        ELSE nullifiers
  /\ UNCHANGED <<page, env, log, outbox>>

\* setTimeout(() => checkForTx(txHash, retryAttempt + 1), delay) fires.
TimerFires(p) ==
  /\ At(p, "sleeping")
  /\ w' = [w EXCEPT ![p] = [@ EXCEPT !.retryAttempt = @ + 1, !.receiptCalls = @ + 1,
                                     !.pc = "awaitReceipt"]]
  /\ UNCHANGED <<page, env, log, nullifiers, outbox>>

\* Somebody else who holds the same note (another client, against the same
\* ledger) withdraws it: the ledger registers the nullifier hash.
OtherWithdraw(d) ==
  /\ toHex(d.nullifierHash, DefaultHexBytes) \notin nullifiers
  /\ \E i \in 1..Len(log) : log[i] = toHex(d.commitment, DefaultHexBytes)
  /\ nullifiers' = nullifiers \cup {toHex(d.nullifierHash, DefaultHexBytes)}
  /\ UNCHANGED <<page, env, log, outbox, w>>

\* ---------------------------------------------------------- specifications
\* The logs the ledger may hold when a run starts: no commitment twice.
InitialLogs ==
  LET cs == {toHex(d.commitment, DefaultHexBytes) : d \in {DepositA, DepositB, DepositF}}
  IN {l \in UNION {[1..n -> cs] : n \in 0..MaxLeaves} :
        \A i, j \in 1..Len(l) : i # j => l[i] # l[j]}

TypicalInit ==
  /\ outbox = {}
  /\ page = IF env.inBrowser THEN PageStart ELSE NoPage
  /\ w = [p \in Procs |-> Idle]

Init ==
  /\ env \in {[scenario |-> "main", procs |-> {1}, inBrowser |-> b] : b \in BOOLEAN}
  /\ log \in InitialLogs
  /\ nullifiers = {}
  /\ TypicalInit

Step(p) ==
  \/ RunConsoleDeposit(p)
  \/ RunConsoleWithdraw(p)
  \/ RunConsoleBalance(p)
  \/ BuildGroth16Return(p)
  \/ GetTransactionReturn(p)
  \/ GetAccountsReturn(p)
  \/ GetBalanceReturn(p)
  \/ WindowDeposit(p)
  \/ WindowWithdraw(p)
  \/ WindowAccountsReturn(p)
  \/ DepositBegin(p)
  \/ DepositSendReturn(p)
  \/ DepositSendReject(p)
  \/ DepositSendTimeout(p)
  \/ DepositMinedLate(p)
  \/ Withdraw(p)
  \/ WithdrawRelay(p)
  \/ RelayStatusReturn(p)
  \/ NetIdReturn(p)
  \/ GetPastEventsReturn(p)
  \/ TreeRootReturn(p)
  \/ IsKnownRootReturn(p)
  \/ IsSpentReturn(p)
  \/ TreePathReturn(p)
  \/ ProofReturn(p)
  \/ Submit(p)
  \/ PostReturn(p)
  \/ PostReject(p)
  \/ ReceiptReturn(p)
  \/ TimerFires(p)
  \/ WithdrawSendReturn(p)
  \/ WithdrawSendReject(p)

\* The steps of the page's init().
PageStep ==
  \/ PageFetchReturn
  \/ PageBodyReturn
  \/ PageBuildGroth16Return
  \/ PageGetTransactionReturn
  \/ PageGetAccountsReturn

Next ==
  \/ \E p \in Procs : Step(p)
  \/ PageStep
  \/ \E d \in {DepositA} : OtherWithdraw(d)

Spec == Init /\ [][Next]_vars

\* The note codec under many random scalars and malformed notes, against a
\* ledger that starts empty or with DepositA alone.
InitNote ==
  /\ env \in {[scenario |-> "note", procs |-> {1}, inBrowser |-> b] : b \in BOOLEAN}
  /\ log \in {<<>>, <<toHex(DepositA.commitment, DefaultHexBytes)>>}
  /\ nullifiers = {}
  /\ TypicalInit

SpecNote == InitNote /\ [][Next]_vars

\* The relay flow under many status answers, against a ledger that holds
\* DepositA, alone or followed by DepositG.
InitRelay ==
  /\ env \in {[scenario |-> "relay", procs |-> {1}, inBrowser |-> b] : b \in BOOLEAN}
  /\ log \in {<<toHex(DepositA.commitment, DefaultHexBytes)>>,
              <<toHex(DepositA.commitment, DefaultHexBytes),
                toHex(DepositG.commitment, DefaultHexBytes)>>}
  /\ nullifiers = {}
  /\ TypicalInit

SpecRelay == InitRelay /\ [][Next]_vars

\* Two invocations that withdraw the same note, NoteA, side by side: two
\* calls of window.withdraw in one page, or two processes started from the
\* command line, against the one ledger that holds DepositA.  Nothing but
\* the ledger is shared between them.
InitRace ==
  /\ env \in {[scenario |-> "race", procs |-> {1, 2}, inBrowser |-> b] : b \in BOOLEAN}
  /\ log = <<toHex(DepositA.commitment, DefaultHexBytes)>>
  /\ nullifiers = {}
  /\ TypicalInit

WithdrawStep(p) ==
  \/ RunConsoleWithdraw(p)
  \/ BuildGroth16Return(p)
  \/ GetTransactionReturn(p)
  \/ GetAccountsReturn(p)
  \/ GetBalanceReturn(p)
  \/ WindowWithdraw(p)
  \/ WindowAccountsReturn(p)
  \/ Withdraw(p)
  \/ WithdrawRelay(p)
  \/ RelayStatusReturn(p)
  \/ NetIdReturn(p)
  \/ GetPastEventsReturn(p)
  \/ TreeRootReturn(p)
  \/ IsKnownRootReturn(p)
  \/ IsSpentReturn(p)
  \/ TreePathReturn(p)
  \/ ProofReturn(p)
  \/ Submit(p)
  \/ WithdrawSendReturn(p)
  \/ WithdrawSendReject(p)
  \/ PostReturn(p)
  \/ PostReject(p)
  \/ ReceiptReturn(p)
  \/ TimerFires(p)

NextRace ==
  \/ \E p \in Procs : WithdrawStep(p)
  \/ PageStep

SpecRace == InitRace /\ [][NextRace]_vars

\* ------------------------------------------------------------ larger trees
\* Withdrawals against a ledger that holds the first deposits of TreeDeposit,
\* up to MaxTreeLeaves of them or twenty, of the note of the first, third,
\* eighth or twentieth.
InitTree ==
  /\ env \in {[scenario |-> "tree", procs |-> {1}, inBrowser |-> b] : b \in BOOLEAN}
  /\ log \in {TreeLog(n) : n \in (0..MaxTreeLeaves) \cup {20}}
  /\ nullifiers = {}
  /\ TypicalInit

\* The withdrawals of one invocation, while somebody else may withdraw the
\* note of the twentieth deposit.
NextTree ==
  \/ \E p \in Procs : WithdrawStep(p)
  \/ PageStep
  \/ \E d \in {TreeDeposit(20)} : OtherWithdraw(d)

SpecTree == InitTree /\ [][NextTree]_vars

\* -------------------------------------------------- pool-aware command line
\* The command line of README.md (tornado.js with pools) and lib/Params.
\* An option's value is the text given for it; a Boolean option given is
\* true, a Number option is the text of the number.
OptionDefinition(name, type) ==
  [name |-> name, type |-> type, hasDefault |-> FALSE, defaultValue |-> <<>>]

\* const optionDefinitions = [ deposit, withdraw, balance, pools, help ]
optionDefinitions ==
  { OptionDefinition("deposit", "Boolean"), OptionDefinition("withdraw", "String"),
    OptionDefinition("balance", "String"), OptionDefinition("pools", "Boolean"),
    OptionDefinition("help", "Boolean") }

\* const allDefinitions = [ from, pool (defaultValue: 1) ]
allDefinitions ==
  { OptionDefinition("from", "String"),
    [name |-> "pool", type |-> "Number", hasDefault |-> TRUE, defaultValue |-> <<"1">>] }

\* const withdrawDefinitions = [ to, relay ]
withdrawDefinitions ==
  { OptionDefinition("to", "String"), OptionDefinition("relay", "String") }

\* commandLineArgs(definitions) of the package command-line-args, on the
\* options argv gives: an option that no definition names throws
\* UNKNOWN_OPTION; the result holds the options given and the default values
\* of the definitions that have one.
commandLineArgs(definitions, argv) ==
  IF \E n \in DOMAIN argv : \A d \in definitions : d.name # n
  THEN [threw |-> TRUE, options |-> <<>>]
  ELSE [threw |-> FALSE,
        options |->
          [n \in DOMAIN argv \cup {d.name : d \in {e \in definitions : e.hasDefault}} |->
             IF n \in DOMAIN argv THEN argv[n]
             ELSE (CHOOSE d \in definitions : d.name = n).defaultValue]]

\* options.name is truthy
Given(options, name) == name \in DOMAIN options /\ options[name] # <<>>

\* const POOLS = new Map([[1, {denomination: 8e18, contract, deployedTxid}]])
POOLS ==
  [id \in {<<"1">>} |->
     [denomination |-> <<"8", "e", "1", "8">>,
      contract |->
        <<"0", "x", "5", "f", "0", "c", "5", "a", "6", "F", "6",
          "9", "9", "7", "7", "2", "b", "0", "E", "1", "d", "7",
          "8", "a", "c", "0", "0", "A", "f", "4", "0", "1", "7",
          "4", "b", "F", "e", "f", "8", "6", "2", "3">>,
      deployedTxid |->
        <<"0", "x", "3", "a", "f", "f", "5", "7", "f", "b", "3",
          "2", "f", "6", "b", "7", "e", "c", "1", "7", "3", "0",
          "4", "f", "3", "c", "3", "5", "2", "0", "0", "0", "b",
          "b", "9", "d", "5", "2", "2", "d", "5", "4", "f", "6",
          "f", "d", "f", "b", "e", "c", "5", "5", "d", "2", "f",
          "4", "6", "9", "c", "1", "a", "3", "9", "1", "8", "1">>]]

\* POOLS.has(options.pool)
PoolsHas(options) == "pool" \in DOMAIN options /\ options["pool"] \in DOMAIN POOLS

True == <<"t", "r", "u", "e">>

\* The command lines of the runs: at most one of each kind of option.
Argvs ==
  { c @@ pl @@ f @@ t :
      c \in { <<>>, "deposit" :> True, "withdraw" :> NoteA, "balance" :> SenderAccount,
              "pools" :> True, "help" :> True,
              ("deposit" :> True) @@ ("withdraw" :> NoteA) },
      pl \in { <<>>, "pool" :> <<"1">>, "pool" :> <<"2">>, "pool" :> <<"0">> },
      f \in { <<>>, "from" :> SenderAccount },
      t \in { <<>>, "to" :> RecipientAddress } }

InitPool ==
  /\ \E argv \in Argvs :
       env = [scenario |-> "pool", procs |-> {1}, inBrowser |-> FALSE, argv |-> argv]
  /\ w = [p \in Procs |-> IF p = 1 THEN [Idle EXCEPT !.pc = "require"] ELSE Idle]
  /\ log = <<>>
  /\ nullifiers = {}
  /\ outbox = {}
  /\ page = NoPage

\* require('./lib/Params'), where
\* const options = commandLineArgs(optionDefinitions), and
\* const options = params.options()
RequireParams(p) ==
  /\ At(p, "require")
  /\ LET parsed == commandLineArgs(optionDefinitions, env.argv)
     IN w' = [w EXCEPT ![p] =
                IF parsed.threw
                THEN [@ EXCEPT !.pc = "failed", !.error = "UNKNOWN_OPTION", !.exit = 1]
                ELSE [@ EXCEPT !.pc = "runConsole", !.entry = "cli",
                               !.options = parsed.options]]
  /\ UNCHANGED <<page, env, log, nullifiers, outbox>>

\* runConsole(options) up to its first await: the command that runs, or
\* printPools, or printHelp(1).
RunConsoleOptions(p) ==
  /\ At(p, "runConsole")
  /\ LET o == w[p].options
         help == [w[p] EXCEPT !.pc = "exit", !.error = "runConsole: printHelp(1)",
                              !.exit = 1]
     IN w' = [w EXCEPT ![p] =
                IF Given(o, "balance")
                THEN [@ EXCEPT !.pc = "poolInit", !.cmd = "balance"]
                ELSE IF Given(o, "pools")
                THEN [@ EXCEPT !.pc = "exit", !.cmd = "pools", !.exit = 0]
                ELSE IF Given(o, "deposit") /\ ~Given(o, "withdraw")
                THEN [@ EXCEPT !.pc = "poolInit", !.cmd = "deposit"]
                ELSE IF Given(o, "withdraw") /\ ~Given(o, "deposit")
                          /\ NoteRegexTest(o["withdraw"])
                THEN IF Given(o, "to") /\ AddressRegexTest(o["to"])
                     THEN [@ EXCEPT !.pc = "poolInit", !.cmd = "withdraw",
                                    !.note = o["withdraw"], !.recipient = o["to"],
                                    !.relay = Given(o, "relay")]
                     ELSE help
                ELSE help]
  /\ UNCHANGED <<page, env, log, nullifiers, outbox>>

\* init(): buildGroth16() answers; for a pool that POOLS has,
\* getTransaction(pool.deployedTxid) is awaited, otherwise printHelp(1) ends
\* the process.
PoolInit(p) ==
  /\ At(p, "poolInit")
  /\ LET o == w[p].options
     IN w' = [w EXCEPT ![p] =
                IF PoolsHas(o)
                THEN [@ EXCEPT !.pc = "poolGetTransaction", !.reads = @ + 1]
                ELSE [@ EXCEPT !.pc = "exit", !.error = "init: printHelp(1)",
                               !.exit = 1]]
  /\ UNCHANGED <<page, env, log, nullifiers, outbox>>

PoolStep(p) ==
  \/ RequireParams(p)
  \/ RunConsoleOptions(p)
  \/ PoolInit(p)

NextPool == \E p \in Procs : PoolStep(p)

SpecPool == InitPool /\ [][NextPool]_vars

\* ------------------------------------------------------------ properties
\* Invocation p handed a withdrawal to the outside world: the ledger
\* transaction was sent, or the POST to /relay made.
HandedOut(p) == \E m \in outbox : m.by = p /\ m.kind \in {"withdraw", "relay"}

\* The isSpent call of p is over (line 89): isKnownRoot had answered before
\* it was made.
SpentCallOver(p) == w[p].spentCalls = 1 /\ w[p].pc # "awaitSpent"

\* The isSpent call of p rejected.
SpentRejected(p) == w[p].pc = "failed" /\ w[p].error = "isSpent rejected"

\* generateMerkleProof of p has the ledger's three answers.
Checked(p) == SpentCallOver(p) /\ ~SpentRejected(p)

\* getPastEvents has answered p.
Fetched(p) == w[p].rootCalls = 1

\* Some event delivered to p carries the commitment of p's deposit.
CommitmentDelivered(p) ==
  \E i \in 1..Len(w[p].delivered) :
    w[p].delivered[i].commitment = toHex(w[p].deposit.commitment, DefaultHexBytes)

ChecksPassed(p) ==
  w[p].isValidRoot = TRUE /\ w[p].isSpent = FALSE /\ CommitmentDelivered(p)

\* C1: a withdrawal is handed to the outside world (withdraw transaction sent,
\* or /relay posted) only if, earlier in the invocation, the ledger answered
\* isKnownRoot = true and isSpent = false and the deposit's commitment was
\* among the fetched events; if one of the three fails, no proof is generated
\* and nothing is submitted.
C1_SubmitOnlyAfterChecks ==
  \A p \in Procs :
    /\ HandedOut(p) => Checked(p) /\ ChecksPassed(p)
    /\ w[p].proofCalls > 0 => Checked(p) /\ ChecksPassed(p)
    /\ (Checked(p) /\ ~ChecksPassed(p)) =>
         w[p].proofCalls = 0 /\ w[p].submits = 0 /\ ~HandedOut(p) /\ w[p].pc = "failed"

\* The POST to /relay made, after a status answer and the three checks.
C1_Witness ==
  \E p \in Procs :
    /\ w[p].relay /\ w[p].pc = "awaitPost"
    /\ \E m \in outbox : m.by = p /\ m.kind = "relay" /\ m.payload = w[p].args

\* C2 (as stated): generateMerkleProof fails with 'The note is already spent'
\* whenever the ledger reports isSpent = true, whatever isKnownRoot answered
\* and whether or not the commitment is among the fetched leaves.
C2_SpentAlwaysAlreadySpent ==
  \A p \in Procs :
    (Checked(p) /\ w[p].isSpent = TRUE) =>
      w[p].pc = "failed" /\ w[p].error = "The note is already spent"

\* C2 (amended): when the ledger reports isSpent = true, generateMerkleProof
\* fails; with 'The note is already spent' if isKnownRoot answered true
\* (commitment present or absent), with 'Merkle tree is corrupted' if
\* isKnownRoot answered false.
C2_SpentFailsByRootAnswer ==
  \A p \in Procs :
    (Checked(p) /\ w[p].isSpent = TRUE) =>
      /\ w[p].pc = "failed"
      /\ w[p].proofCalls = 0
      /\ w[p].isValidRoot = TRUE => w[p].error = "The note is already spent"
      /\ w[p].isValidRoot = FALSE => w[p].error = "Merkle tree is corrupted"

\* A spent note, a known root, and the commitment absent: AlreadySpent.
C2_Witness ==
  \E p \in Procs :
    /\ Checked(p) /\ w[p].isSpent = TRUE /\ w[p].isValidRoot = TRUE
    /\ ~CommitmentDelivered(p)
    /\ w[p].error = "The note is already spent"

\* C3 (as stated): generateMerkleProof fails with 'Merkle tree is corrupted'
\* whenever the ledger answers isKnownRoot = false, and without retrying: the
\* Deposit events are fetched once and isKnownRoot is called once per
\* invocation.
C3_UnknownRootTreeCorrupted ==
  \A p \in Procs :
    /\ w[p].fetches <= 1 /\ w[p].rootCalls <= 1
    /\ (SpentCallOver(p) /\ w[p].isValidRoot = FALSE) =>
         /\ w[p].pc = "failed"
         /\ w[p].error = "Merkle tree is corrupted"
         /\ w[p].fetches = 1
         /\ w[p].rootCalls = 1

\* C3 (amended): whenever the ledger answers isKnownRoot = false,
\* generateMerkleProof fails, without a path, a proof or a retry: the Deposit
\* events are fetched once and isKnownRoot is called once per invocation.
\* The failure is 'Merkle tree is corrupted' when the isSpent call awaited
\* after isKnownRoot answers, true or false, and is the rejection of that
\* call when it rejects.
C3_UnknownRootFailsOnce ==
  \A p \in Procs :
    /\ w[p].fetches <= 1 /\ w[p].rootCalls <= 1
    /\ (SpentCallOver(p) /\ w[p].isValidRoot = FALSE) =>
         /\ w[p].pc = "failed"
         /\ w[p].fetches = 1
         /\ w[p].rootCalls = 1
         /\ w[p].pathCalls = 0 /\ w[p].proofCalls = 0 /\ w[p].submits = 0
         /\ Checked(p) => w[p].error = "Merkle tree is corrupted"
         /\ SpentRejected(p) => w[p].error = "isSpent rejected"

\* An unknown root together with a spent note: still TreeCorrupted.
C3_Witness ==
  \E p \in Procs :
    /\ Checked(p) /\ w[p].isValidRoot = FALSE /\ w[p].isSpent = TRUE
    /\ w[p].error = "Merkle tree is corrupted"

\* C4 (as stated): generateMerkleProof fails with 'The deposit is not found in
\* the tree' whenever no fetched event carries the deposit's commitment, and
\* tree.path is then never called.
C4_AbsentAlwaysNotFound ==
  \A p \in Procs :
    (Checked(p) /\ ~CommitmentDelivered(p)) =>
      /\ w[p].pc = "failed"
      /\ w[p].error = "The deposit is not found in the tree"
      /\ w[p].pathCalls = 0

\* C4 (amended): when no fetched event carries the deposit's commitment,
\* generateMerkleProof fails and tree.path is never called; the failure is
\* 'The deposit is not found in the tree' if the ledger answered isKnownRoot =
\* true and isSpent = false, and is the failure of the earlier assertion
\* otherwise.
C4_AbsentFailsWithoutPath ==
  \A p \in Procs :
    /\ (Fetched(p) /\ ~CommitmentDelivered(p)) =>
         /\ w[p].pathCalls = 0
         /\ w[p].pc \in {"awaitKnownRoot", "awaitSpent", "failed"}
    /\ (Checked(p) /\ ~CommitmentDelivered(p)) =>
         /\ w[p].pc = "failed"
         /\ w[p].pathCalls = 0
         /\ (w[p].isValidRoot = TRUE /\ w[p].isSpent = FALSE) =>
              w[p].error = "The deposit is not found in the tree"
         /\ (w[p].isValidRoot = TRUE /\ w[p].isSpent = TRUE) =>
              w[p].error = "The note is already spent"
         /\ w[p].isValidRoot = FALSE => w[p].error = "Merkle tree is corrupted"

C4_Witness ==
  \E p \in Procs :
    /\ Checked(p) /\ ~CommitmentDelivered(p)
    /\ w[p].error = "The deposit is not found in the tree"
    /\ Len(w[p].delivered) > 0

\* The elements of a sequence.
Range(seq) == {seq[i] : i \in 1..Len(seq)}

\* No event is delivered twice.
DeliveredOnce(p) == Cardinality(Range(w[p].delivered)) = Len(w[p].delivered)

\* The commitments of a set of events in ascending leafIndex order, each
\* event once: the event of least leafIndex first.
RECURSIVE AscendingLeaves(_)
AscendingLeaves(events) ==
  IF events = {} THEN <<>>
  ELSE LET least == CHOOSE e \in events : \A f \in events : e.leafIndex <= f.leafIndex
       IN <<least.commitment>> \o AscendingLeaves(events \ {least})

\* C5: whatever the order in which getPastEvents delivers a set of Deposit
\* events, the leaves given to the tree are the commitments in strictly
\* ascending leafIndex order, so the root does not depend on the order.
C5_LeavesAscendingAnyOrder ==
  \A p \in Procs :
    (Fetched(p) /\ DeliveredOnce(p)) =>
      /\ w[p].leaves = AscendingLeaves(Range(w[p].delivered))
      /\ \A i, j \in 1..Len(w[p].events) :
           i < j => w[p].events[i].leafIndex < w[p].events[j].leafIndex
      /\ w[p].root = TreeRoot(MERKLE_TREE_HEIGHT, AscendingLeaves(Range(w[p].delivered)))

\* Two events delivered latest first.
C5_Witness ==
  \E p \in Procs :
    /\ Fetched(p) /\ DeliveredOnce(p) /\ Len(w[p].delivered) >= 2
    /\ w[p].delivered[1].leafIndex > w[p].delivered[2].leafIndex
    /\ w[p].leaves = <<log[1], log[2]>>

\* C6: an event delivered more than once changes nothing: the leaves given to
\* the tree (and the root) are those of every event delivered once, the leaf
\* of position i being the commitment of the i-th delivered event in
\* leafIndex order.
C6_DuplicatesDoNotChangeLeaves ==
  \A p \in Procs :
    Fetched(p) =>
      /\ w[p].leaves = AscendingLeaves(Range(w[p].delivered))
      /\ w[p].root = TreeRoot(MERKLE_TREE_HEIGHT, AscendingLeaves(Range(w[p].delivered)))

\* The position in the ledger's log of a commitment it holds.
LedgerPosition(commitmentHex) == CHOOSE i \in 1..Len(log) : log[i] = commitmentHex

\* C7: the lookup yields -1 when no fetched event carries the deposit's
\* commitment, and otherwise the leafIndex the ledger assigned to the event
\* that carries it (no two events carry the same commitment).
C7_LocateLedgerIndex ==
  \A p \in Procs :
    Fetched(p) =>
      IF CommitmentDelivered(p)
      THEN w[p].leafIndex = LedgerPosition(toHex(w[p].deposit.commitment, DefaultHexBytes)) - 1
      ELSE w[p].leafIndex = -1

\* The deposit's event is the only one delivered and is not the first of the
\* log.
C7_Witness ==
  \E p \in Procs :
    /\ Fetched(p) /\ CommitmentDelivered(p)
    /\ Len(w[p].delivered) = 1
    /\ w[p].leafIndex = 1

\* generateProof of p has decoded the note that deposit() of p returned.
DecodedOwnNote(p) ==
  /\ w[p].cmd \in {"test", "testRelay"}
  /\ w[p].fetches = 1

\* C8: decoding the note made from createDeposit(nullifier, secret).preimage
\* gives back the nullifier, the secret and the commitment, for all scalars
\* of 31 bytes.
C8_NoteRoundTrip ==
  \A p \in Procs :
    DecodedOwnNote(p) =>
      /\ w[p].note = encodeNote(w[p].made)
      /\ w[p].deposit.nullifier = w[p].made.nullifier
      /\ w[p].deposit.secret = w[p].made.secret
      /\ w[p].deposit.commitment = w[p].made.commitment
      /\ w[p].deposit.nullifierHash = w[p].made.nullifierHash

\* A nullifier with leading zero bytes and a secret with trailing ones.
C8_Witness ==
  \E p \in Procs :
    /\ DecodedOwnNote(p)
    /\ w[p].made.nullifier = rbigint(BytePattern(1, 0, 1))
    /\ w[p].made.secret = rbigint(BytePattern(0, 171, 30))

\* C9: every note deposit() outputs is '0x' and 124 hex characters, so the
\* format check of the withdraw command accepts it, also for scalars with
\* leading zero bytes.
C9_NoteFixedWidth ==
  \A p \in Procs :
    w[p].noteOut # <<>> =>
      /\ Len(w[p].noteOut) = NoteHexChars + 2
      /\ NoteRegexTest(w[p].noteOut)

\* The note of two zero scalars.
C9_Witness ==
  \E p \in Procs :
    /\ w[p].noteOut # <<>>
    /\ w[p].made.nullifier = ZeroInt
    /\ w[p].made.secret = ZeroInt

\* C10: on every entry path a note that does not match the format is rejected
\* before any ledger read, relay request or proof generation.
C10_MalformedNoteRejectedFirst ==
  \A p \in Procs :
    (w[p].cmd = "withdraw" /\ ~NoteRegexTest(w[p].note)) =>
      /\ w[p].reads = 0
      /\ w[p].fetches = 0
      /\ w[p].proofCalls = 0
      /\ w[p].submits = 0

\* The relay's status has answered p.
StatusAnswered(p) == w[p].status # NoStatus

\* The status answer of p names another network than the ledger's, and not
\* the marker of a relay for every network.
OtherNetwork(p) ==
  /\ StatusAnswered(p)
  /\ w[p].status.netId.s # LedgerNetId.s
  /\ w[p].status.netId.s # "*"

NetworkMismatch(p) ==
  w[p].pc = "failed" /\ w[p].error = "This relay is for different network"

\* web3.eth.net.getId() has answered p with the ledger's network id.
NetIdAnswered(p) ==
  StatusAnswered(p) /\ w[p].pc # "awaitNetId" /\ w[p].error # "getId rejected"

\* C11: withdrawRelay fails with 'This relay is for different network' when
\* the netId of the relay's status names another network than the ledger's
\* (as getId answers it) and is not '*'; then no events are fetched, no proof
\* is generated and no POST to /relay is made.
C11_OtherNetworkFailsBeforeProof ==
  \A p \in Procs :
    OtherNetwork(p) =>
      /\ NetIdAnswered(p) => NetworkMismatch(p)
      /\ w[p].pc \in {"awaitNetId", "failed"}
      /\ w[p].fetches = 0 /\ w[p].proofCalls = 0 /\ w[p].submits = 0
      /\ ~HandedOut(p)

\* A status answer with netId '2' against the ledger of network 1.
C11_Witness ==
  \E p \in Procs :
    /\ w[p].status.netId = JsString("2")
    /\ NetworkMismatch(p)
    /\ w[p].reads > 0

\* C12: withdrawRelay does not fail with 'This relay is for different
\* network' when the status answer carries netId "1", a string, and the
\* ledger's network id, as web3.eth.net.getId() returns it, is 1: once
\* getId has answered, the assertion of line 173 has passed and the flow has
\* gone on to generateProof.
C12_SameNetworkStringPasses ==
  \A p \in Procs :
    (/\ NetIdAnswered(p)
     /\ w[p].status.netId = JsString("1")
     /\ LedgerNetId.s = "1") =>
      ~NetworkMismatch(p) /\ w[p].fetches = 1

\* generateProof was called for the relay withdrawal of p.
RelayProofRequested(p) == StatusAnswered(p) /\ w[p].fetches > 0

\* The hex digits of g * 10^15: g gwei in wei, times the gas of 1,000,000.
QuotedFeeDigits(g) ==
  StripLeadingZeros(
    MulDigits(MulDigits(MulDigits(NatToDigits(g), 100000, 0), 100000, 0), 100000, 0))

\* digits as a hex string of 32 bytes
Hex32(digits) ==
  <<"0", "x">> \o [i \in 1..(64 - Len(digits)) |-> "0"]
               \o [i \in 1..Len(digits) |-> HexChars[digits[i] + 1]]

\* C13: in withdrawRelay the fee given to generateProof, and encoded as
\* publicSignals[4] of the POST, is the relay's gasPrices.fast taken from gwei
\* to wei and multiplied by 1,000,000: fast * 10^9 * 10^6.
C13_RelayFeeIsGasPriceTimesGas ==
  \A p \in Procs :
    RelayProofRequested(p) =>
      /\ w[p].fee.digits = QuotedFeeDigits(w[p].status.fast)
      /\ w[p].args # <<>> => w[p].args[5] = Hex32(QuotedFeeDigits(w[p].status.fast))
      /\ \A m \in outbox :
           (m.by = p /\ m.kind = "relay") =>
             m.payload[5] = Hex32(QuotedFeeDigits(w[p].status.fast))

\* gasPrices.fast = 5 posted as 5 * 10^15 = 0x11c37937e08000.
C13_Witness ==
  \E p \in Procs :
    /\ w[p].status.fast = 5
    /\ \E m \in outbox :
         /\ m.by = p /\ m.kind = "relay"
         /\ m.payload[5] = Hex32(<<1, 1, 12, 3, 7, 9, 3, 7, 14, 0, 8, 0, 0, 0>>)

\* A POST to /relay made by p.
RelayPosts(p) == {m \in outbox : m.by = p /\ m.kind = "relay"}

\* str with its hex letters in lower case
LowerCased(str) ==
  [i \in 1..Len(str) |-> IF HexVal(str[i]) >= 10 THEN HexChars[HexVal(str[i]) + 1]
                         ELSE str[i]]

\* The relay's status named an address of 20 bytes.
TwentyByteRelayer(p) == Len(w[p].status.relayerAddress) = 2 + AddressHexChars

\* C14 as stated: publicSignals[3] of the POST is the relayerAddress string of
\* the status answer, for every relayerAddress of 20 bytes, mixed-case ones
\* included.
C14_RelayerSignalIsStatusString ==
  \A p \in Procs :
    \A m \in RelayPosts(p) :
      TwentyByteRelayer(p) => m.payload[4] = w[p].status.relayerAddress

\* C14: publicSignals of the POST are, in this order, root, nullifierHash,
\* recipient, relayer, fee, refund, and for every relayerAddress of 20 bytes
\* publicSignals[3] is that address in lower-case hex: the same 20 bytes, the
\* leading zero bytes kept, and the same string when the relay sent it in
\* lower case.
C14_RelayerSignalIsStatusAddress ==
  \A p \in Procs :
    \A m \in RelayPosts(p) :
      /\ Len(m.payload) = 6
      /\ m.payload[1] = Hex32(w[p].inputRoot.digits)
      /\ m.payload[2] = Hex32(w[p].deposit.nullifierHash.digits)
      /\ m.payload[3] = LowerCased(w[p].recipient)
      /\ TwentyByteRelayer(p) =>
           /\ m.payload[4] = LowerCased(w[p].status.relayerAddress)
           /\ (w[p].status.relayerAddress = LowerCased(w[p].status.relayerAddress)
                 => m.payload[4] = w[p].status.relayerAddress)
      /\ m.payload[5] = Hex32(w[p].fee.digits)
      /\ m.payload[6] = Hex32(<<0>>)

\* A POST made after the relay named its address in mixed case: the signal
\* is the lower-case address, with its two leading zero bytes.
C14_Witness ==
  \E p \in Procs :
    /\ w[p].status.relayerAddress = RelayerAddressMixed
    /\ RelayerAddressMixed # RelayerAddress
    /\ \E m \in RelayPosts(p) :
         m.payload[4] = RelayerAddress /\ SubSeq(m.payload[4], 1, 6) = <<"0", "x", "0", "0", "0", "0">>

\* C15: waitForTxReceipt sets at most `attempts` timers after its first
\* receipt query (60 by default), so it asks for the receipt at most
\* attempts + 1 times, and a query that finds the budget used up rejects with
\* 'tx was not mined' and sets no timer.
C15_RetriesWithinAttempts ==
  \A p \in Procs :
    /\ w[p].timers <= DefaultAttempts
    /\ w[p].receiptCalls <= DefaultAttempts + 1
    /\ w[p].pc = "sleeping" => w[p].retryAttempt < DefaultAttempts

\* C16: when a getTransactionReceipt call made by waitForTxReceipt fails, the
\* promise of waitForTxReceipt is rejected with that cause and withdrawRelay
\* ends in failure; no invocation is left, or ended by the runtime, on a
\* promise that nothing is going to settle.
C16_ReceiptFailureIsSurfaced ==
  \A p \in Procs :
    /\ w[p].unhandled # "" => w[p].pc = "failed" /\ w[p].error = w[p].unhandled
    /\ w[p].pc \notin {"pending", "ended"}

\* The state of the withdrawal attempt of invocation r, by its position;
\* Confirmed once 'Done' was printed.
StageOf(r) ==
  IF r.doneLogged THEN "Confirmed"
  ELSE IF r.pc \in {"withdraw", "withdrawRelay", "awaitStatus", "awaitNetId",
                    "awaitEvents", "awaitTreeRoot", "awaitKnownRoot", "awaitSpent",
                    "awaitTreePath", "proving"} THEN "Init"
  ELSE IF r.pc = "proofBuilt" THEN "ProofBuilt"
  ELSE IF r.pc \in {"awaitSend", "awaitPost", "awaitReceipt", "sleeping", "pending",
                    "ended"}
  THEN "Submitted"
  ELSE IF r.pc = "failed" THEN "Failed"
  ELSE "None"

\* What each state of an attempt has behind it.
StageHistory(p) ==
  LET stage == StageOf(w[p])
  IN /\ w[p].submits <= 1 /\ w[p].proofCalls <= 1
     /\ Cardinality({m \in outbox : m.by = p /\ m.kind \in {"withdraw", "relay"}})
          = w[p].submits
     /\ w[p].submits = 1 => w[p].proofCalls = 1 /\ w[p].args # <<>>
     /\ stage \in {"None", "Init"} => w[p].submits = 0 /\ w[p].args = <<>>
     /\ stage = "Init" /\ w[p].pc # "proving" => w[p].proofCalls = 0
     /\ stage = "ProofBuilt" => w[p].proofCalls = 1 /\ w[p].submits = 0 /\ w[p].args # <<>>
     /\ stage \in {"Submitted", "Confirmed"} => w[p].submits = 1

\* The steps an attempt may take.
StageStep(p) ==
  LET from == StageOf(w[p])
      to == StageOf(w'[p])
  IN \/ to = from
     \/ from = "None" /\ to \in {"Init", "Failed"}
     \/ from = "Init" /\ to \in {"ProofBuilt", "Failed"}
     \/ from = "ProofBuilt" /\ to \in {"Submitted", "Failed"}
     \/ from = "Submitted" /\ to \in {"Confirmed", "Failed"}

\* C17: a withdrawal attempt, direct or through a relay, goes Init,
\* ProofBuilt, Submitted and then Confirmed or Failed, in this order: the
\* proof backend has answered before anything is submitted, at most one
\* submission is made, Confirmed follows Submitted only, and no state is left
\* for an earlier one or skipped, except by failing.
C17_StagesInOrder ==
  /\ [](\A p \in Procs : StageHistory(p))
  /\ [][\A p \in Procs : StageStep(p)]_vars

\* A relay withdrawal confirmed by the second receipt query.
C17_Witness ==
  \E p \in Procs :
    /\ StageOf(w[p]) = "Confirmed"
    /\ w[p].relay /\ w[p].submits = 1 /\ w[p].proofCalls = 1 /\ w[p].timers = 1
    /\ w[p].receiptCalls = 2

\* n characters '0' after '0x'
ZeroHex(n) == <<"0", "x">> \o [i \in 1..n |-> "0"]

\* The withdraw transactions p sent to the ledger.
WithdrawSends(p) == {m \in outbox : m.by = p /\ m.kind = "withdraw"}

\* C18: withdraw builds the circuit input and the ledger arguments with
\* relayer = 0, fee = 0 and refund = 0, whatever the note and the recipient:
\* the relayer argument of the withdraw transaction is the zero address of 20
\* bytes, its fee and refund arguments are 32 zero bytes.
C18_DirectWithdrawZeroRelayerFeeRefund ==
  \A p \in Procs :
    /\ (~w[p].relay /\ w[p].fetches > 0) =>
         /\ w[p].relayer.digits = <<0>>
         /\ w[p].fee.digits = <<0>>
         /\ w[p].refund.digits = <<0>>
         /\ w[p].args # <<>> =>
              /\ w[p].args[4] = ZeroHex(40)
              /\ w[p].args[5] = ZeroHex(64)
              /\ w[p].args[6] = ZeroHex(64)
    /\ \A m \in WithdrawSends(p) :
         /\ m.payload[4] = ZeroHex(40)
         /\ m.payload[5] = ZeroHex(64)
         /\ m.payload[6] = ZeroHex(64)

\* The withdraw transaction of 'test', sent for a note just deposited.
C18_Witness ==
  \E p \in Procs :
    /\ w[p].cmd = "test" /\ w[p].note = w[p].noteOut /\ w[p].note # NoteA
    /\ \E m \in WithdrawSends(p) :
         m.payload[4] = ZeroHex(40) /\ m.payload[5] = ZeroHex(64)

\* The widths in bytes of root, nullifierHash, recipient, relayer, fee, refund.
ArgBytes == <<32, 32, 20, 20, 32, 32>>

\* str is '0x' and the hex characters of n bytes
FixedWidthHex(str, n) ==
  /\ Len(str) = 2 + 2 * n
  /\ str[1] = "0" /\ str[2] = "x"
  /\ \A i \in 3..Len(str) : HexVal(str[i]) >= 0

\* C19: the args generateProof builds are always six hex strings, root,
\* nullifierHash, recipient, relayer, fee and refund, of exactly 32, 32, 20,
\* 20, 32 and 32 bytes: no value is ever emitted as a longer string.
C19_ArgsFixedWidth ==
  \A p \in Procs :
    w[p].args # <<>> =>
      /\ Len(w[p].args) = 6
      /\ \A i \in 1..6 : FixedWidthHex(w[p].args[i], ArgBytes[i])

\* The leaf hashed upward: with the sibling on the right where the path's
\* node is a left child (bit 0), on the left where it is a right child.
\* Climb(leaf, elements, bits, j) is the node of level j.
RECURSIVE Climb(_, _, _, _)
Climb(leaf, elements, bits, j) ==
  IF j = 0 THEN leaf
  ELSE LET below == Climb(leaf, elements, bits, j - 1)
       IN IF bits[j] = 0 THEN PairHash(below, elements[j])
          ELSE PairHash(elements[j], below)

\* The root of the tree of width 2^height, every position filled: the
\* reduction of level 0 padded with the zero value.
RECURSIVE Reduce(_)
Reduce(nodes) ==
  IF Len(nodes) = 1 THEN nodes[1]
  ELSE Reduce([k \in 1..(Len(nodes) \div 2) |-> PairHash(nodes[2 * k - 1], nodes[2 * k])])

PaddedRoot(height, leaves) ==
  Reduce([k \in 1..Pow2(height) |-> IF k <= Len(leaves) THEN leaves[k] ELSE ZeroLeaf])

\* Path(i) of the tree of the given height over leaves has the length of the
\* height, and the leaf hashed upward along it gives Root().
PathReproducesRoot(height, leaves, i) ==
  LET path == Path(height, leaves, i)
  IN /\ Len(path.path_elements) = height
     /\ Len(path.path_index) = height
     /\ \A j \in 1..height : path.path_index[j] \in {0, 1}
     /\ Climb(leaves[i + 1], path.path_elements, path.path_index, height)
          = Root(height, leaves)

\* The small trees: every sequence of at most MaxTreeLeaves leaves that fits
\* a height up to MaxTreeHeight.
SmallTrees ==
  {[height |-> h, leaves |-> l] :
     h \in 1..MaxTreeHeight,
     l \in UNION {[1..n -> {5, 9}] : n \in 0..MaxTreeLeaves}}

\* The path tree.path(leafIndex) answered to invocation p is held.
PathAnswered(p) == w[p].pathCalls = 1 /\ w[p].path_index # <<>>

\* C20: for a tree built from an ordered leaf sequence with height H and a
\* valid leaf index i, Path(i) returns path_elements and path_index of length
\* H each, and hashing leaf i upward, with every sibling on the side its
\* path_index bit gives, yields the value Root() returns: for the tree of
\* height 20 generateMerkleProof builds and the path tree.path(leafIndex)
\* answers, and for every small tree and every valid index, where Root() is
\* also the reduction of the leaves padded to 2^H.  The small trees do not
\* depend on the state; they are looked at where the proof is awaited.
C20_PathReproducesRoot ==
  \A p \in Procs :
    PathAnswered(p) =>
      LET elements == LeafElements(w[p].leaves)
          root == Root(MERKLE_TREE_HEIGHT, elements)
      IN /\ w[p].root = BigIntOfNat(root)
         /\ Len(w[p].path_elements) = MERKLE_TREE_HEIGHT
         /\ Len(w[p].path_index) = MERKLE_TREE_HEIGHT
         /\ \A j \in 1..MERKLE_TREE_HEIGHT : w[p].path_index[j] \in {0, 1}
         /\ Climb(elements[w[p].leafIndex + 1], w[p].path_elements, w[p].path_index,
                 MERKLE_TREE_HEIGHT) = root
         /\ w[p].pc = "proving" =>
              \A t \in SmallTrees :
                Len(t.leaves) <= Pow2(t.height) =>
                  /\ Root(t.height, t.leaves) = PaddedRoot(t.height, t.leaves)
                  /\ \A i \in 0..(Len(t.leaves) - 1) :
                       PathReproducesRoot(t.height, t.leaves, i)

\* The tree of 20 leaves and height 20, asked for the path of index 7.
C20_Witness ==
  \E p \in Procs :
    /\ PathAnswered(p)
    /\ Len(w[p].leaves) = 20 /\ w[p].leafIndex = 7
    /\ Len(w[p].path_index) = 20
    /\ SubSeq(w[p].path_index, 1, 4) = <<1, 1, 1, 0>>

\* The invocations whose withdrawal of the note has been reported done.
ConfirmedFor(note) == {p \in Procs : StageOf(w[p]) = "Confirmed" /\ w[p].note = note}

\* C21: when two invocations withdraw the same note side by side, without
\* any coordination between them, against a ledger that rejects a withdrawal
\* whose nullifier hash is registered, at most one of them reaches Confirmed,
\* in every interleaving of their fetches, checks and submissions.
C21_AtMostOneConfirmed == Cardinality(ConfirmedFor(NoteA)) <= 1

\* C22: in the pool-aware command line, when no --pool option is given,
\* init selects pool 1: options.pool is 1, POOLS.has(options.pool) holds, and
\* init goes on to bind the pool instead of ending in printHelp(1).
C22_DefaultPoolIsOne ==
  \A p \in Procs :
    "pool" \notin DOMAIN env.argv =>
      /\ w[p].pc = "poolInit" =>
           /\ "pool" \in DOMAIN w[p].options
           /\ w[p].options["pool"] = <<"1">>
           /\ PoolsHas(w[p].options)
      /\ w[p].error # "init: printHelp(1)"

\* ------------------------------------------------------------------- C23
\* The delivery of Deposit events is partial: it leaves out an event of the
\* ledger's log (a gap, or a log that does not start at leafIndex 0) or
\* holds an event more than once.
PartialDelivery(r) ==
  \/ Len(r.delivered) # Len(log)
  \/ \E i, j \in 1..Len(r.delivered) : i # j /\ r.delivered[i] = r.delivered[j]

\* C23: whenever generateMerkleProof has called tree.path(leafIndex), the
\* leaves array given to the tree constructor holds the deposit's commitment
\* at that index: leaves[leafIndex] = toHex(deposit.commitment).  A delivery
\* that starts late, has gaps or repeats an event either leaves the
\* commitment where leafIndex points or is stopped by the assertions before
\* tree.path is called.
C23_PathIndexIsCommitmentPosition ==
  \A p \in Procs :
    w[p].pathCalls > 0 =>
      /\ w[p].leafIndex + 1 \in 1..Len(w[p].leaves)
      /\ w[p].leaves[w[p].leafIndex + 1] = toHex(w[p].deposit.commitment, DefaultHexBytes)

\* tree.path was called for a deposit that is not the first leaf, after the
\* events were delivered in another order than the ledger's.
C23_Witness ==
  \E p \in Procs :
    /\ w[p].pathCalls > 0
    /\ w[p].leafIndex > 0
    /\ w[p].delivered # w[p].events

\* A partial delivery that holds the deposit's event was stopped before
\* tree.path.
C23_PartialStopped ==
  \E p \in Procs :
    /\ PartialDelivery(w[p])
    /\ w[p].leafIndex >= 0
    /\ w[p].pc = "failed"
    /\ w[p].pathCalls = 0
    /\ w[p].error = "Merkle tree is corrupted"

\* ------------------------------------------------------------------- C24
\* C24: no deposit is left without its note: in no state has the ledger
\* recorded the commitment of a deposit() invocation whose note was not
\* output (printed and returned) by that invocation.
C24_NoDepositWithoutNote ==
  \A p \in Procs :
    w[p].depositMined => w[p].noteOut = toHex(w[p].made.preimage, PreimageBytes)

====
